---- MODULE Spec2Model ----
(***************************************************************************)
(* Word-frequency counter (wordcount.c, revision 4.2.0): the hash index,   *)
(* the string arena, the budgeted allocator, the tokenizer and the         *)
(* enumeration, as a state machine over one counter object.                *)
(*                                                                         *)
(* Data layout is that of an LP64 build (pointers, size_t and unsigned     *)
(* long are 8 bytes).  TLC evaluates 32-bit signed integers, so            *)
(*   - a 32-bit hash is the pair <<hi, lo>> of its 16-bit halves;          *)
(*   - size_t arithmetic is carried out against SIZE_MAX = 2^31 - 1: the   *)
(*     code's overflow tests are written against SIZE_MAX and keep their   *)
(*     shape.                                                              *)
(* The slot array is the function tab from slot index to slot, restricted  *)
(* to the occupied slots: a slot outside DOMAIN tab is the all-zero slot   *)
(* (word == NULL) that the zero-filled allocation leaves there.            *)
(***************************************************************************)
EXTENDS Integers, Sequences, FiniteSets, TLC

(* ----- bounds of the model --------------------------------------------- *)

\* number of add/scan calls made on one counter
MaxOps == 2

\* length of the byte strings enumerated for the tokenizer
MaxBytes == 3

\* distinct two-letter words in the text that fills a table
FillWords == 13

\* number and length of the words in the text that fills an arena block
LongWords == 11
LongLen == 20

(* ----- program constants ------------------------------------------------ *)

WC_OK == 0
WC_ERROR == 1
WC_NOMEM == 2

NULL == 0

WC_MAX_WORD == 1024
WC_MIN_INIT_CAP == 16
WC_MIN_BLOCK_SZ == 256
WC_DEFAULT_INIT_CAP == 4096
WC_DEFAULT_BLOCK_SZ == 65536
MIN_WORD == 4
DEF_WORD == 64

SIZE_MAX == 2147483647

\* sizeof(wc_internal_align): union of void*, size_t, unsigned long
WC_ALIGN == 8
\* sizeof(Slot): char*, size_t, size_t, unsigned long
SizeofSlot == 32
\* sizeof(Block): Block*, char*, char*, flexible array
SizeofBlock == 24
\* sizeof(wc_word): const char*, size_t
SizeofWord == 16
\* sizeof(struct wc) with WC_STACK_BUFFER == 1
SizeofWc == 120

WC_STACK_BUFFER == TRUE

(* ----- the environment: heap and caller-supplied region ----------------- *)

\* first address and size of the heap behind WC_MALLOC / WC_FREE
HeapBase == 1024 * 1024
HeapBytes == 1024 * 1024
\* alignment of the addresses WC_MALLOC returns
MallocAlign == 2 * WC_ALIGN

(* ----- 32-bit arithmetic on 16-bit halves ------------------------------- *)

RECURSIVE XorBits(_, _, _)
\* a ^ b for a, b < 2^bits
XorBits(a, b, bits) ==
    IF bits = 0 THEN 0
    ELSE IF a = 0 THEN b
    ELSE IF b = 0 THEN a
    ELSE (((a % 2) + (b % 2)) % 2) + (2 * XorBits(a \div 2, b \div 2, bits - 1))

\* a & b for a, b < 16, tabulated
AndNibble ==
    [a \in 0..15 |-> [b \in 0..15 |->
        (((a \div 8) * (b \div 8)) * 8)
        + ((((a \div 4) % 2) * ((b \div 4) % 2)) * 4)
        + ((((a \div 2) % 2) * ((b \div 2) % 2)) * 2)
        + ((a % 2) * (b % 2))]]

\* a & b for a, b < 2^16
And16(a, b) ==
    (AndNibble[a \div 4096][b \div 4096] * 4096)
    + (AndNibble[(a \div 256) % 16][(b \div 256) % 16] * 256)
    + (AndNibble[(a \div 16) % 16][(b \div 16) % 16] * 16)
    + AndNibble[a % 16][b % 16]

\* a & b for 0 <= a, b < 2^31
BitAnd(a, b) ==
    (And16(a \div 65536, b \div 65536) * 65536) + And16(a % 65536, b % 65536)

\* (size_t)((h & WC_HASH_MASK) & (wc_hash_t)mask) for mask < 2^31
HashAnd(h, mask) ==
    (And16(h[1], mask \div 65536) * 65536) + And16(h[2], mask % 65536)

\* FNV_OFF_32 = 2166136261 = 0x811C9DC5
FNV_OFF_32 == <<33052, 40389>>

\* (h * FNV_MUL_32) & WC_HASH_MASK, with FNV_MUL_32 = 16777619 = 2^24 + 403
FnvMul(h) ==
    LET lo == h[2] * 403
        hi == (h[1] * 403) + (lo \div 65536) + ((h[2] % 256) * 256)
    IN  <<hi % 65536, lo % 65536>>

\* a ^ b for a, b < 16, tabulated
XorNibble == [a \in 0..15 |-> [b \in 0..15 |-> XorBits(a, b, 4)]]

\* a ^ c for a < 2^16 and a byte c
XorByte(a, c) ==
    ((a \div 256) * 256)
    + (XorNibble[(a \div 16) % 16][c \div 16] * 16)
    + XorNibble[a % 16][c % 16]

\* a ^ b for a, b < 2^16
Xor16(a, b) ==
    (XorNibble[a \div 4096][b \div 4096] * 4096)
    + (XorNibble[(a \div 256) % 16][(b \div 256) % 16] * 256)
    + (XorNibble[(a \div 16) % 16][(b \div 16) % 16] * 16)
    + XorNibble[a % 16][b % 16]

\* h ^ v for a 32-bit h = <<hi, lo>> and a 32-bit v = <<vhi, vlo>>
Xor32(h, v) == <<Xor16(h[1], v[1]), Xor16(h[2], v[2])>>

\* one step of the hash loop with the multiplication made before the byte
\* is taken in: h *= FNV_MUL_32; h &= WC_HASH_MASK; h ^= c
FnvStep_multiplies_first(h, c) ==
    LET t == FnvMul(h) IN <<t[1], XorByte(t[2], c)>>

\* one step of the hash loop: h ^= c; h *= FNV_MUL_32; h &= WC_HASH_MASK
FnvStep(h, c) == FnvMul(<<h[1], XorByte(h[2], c)>>)

\* e, with v evaluated first: TLC hands the arguments of an operator over
\* unevaluated, and a loop that only passes them on would nest them
Eval(v, e) == IF v = v THEN e ELSE e

\* f, tabulated: TLC keeps [x \in S |-> e] as a rule and evaluates e again
\* at every application until the function is compared
Tabulated(f) == IF f = f THEN f ELSE f

\* F(v), with v evaluated first: the body F with the value v of a call under
\* the name it gives it
Bind(v, F(_)) == IF v = v THEN F(v) ELSE F(v)

RECURSIVE FnvLoop(_, _, _, _)
\* the hash loop over the bytes s[lo .. hi] (counted from 1), entered with h;
\* the range is halved so that the evaluation nests to the logarithm of its
\* length
FnvLoop(s, lo, hi, h) ==
    IF lo > hi THEN h
    ELSE IF lo = hi THEN FnvStep(h, s[lo])
    ELSE Bind(FnvLoop(s, lo, (lo + hi) \div 2, h), LAMBDA first :
              Eval(first, FnvLoop(s, ((lo + hi) \div 2) + 1, hi, first)))

\* fnv32(s, n, seed_basis): h = seed_basis; for (i = 0; i < n; i++) ...
fnv32(s, n, seed_basis) == FnvLoop(s, 1, n, seed_basis)

add_overflows(a, b) == a > SIZE_MAX - b

mul_overflows(a, b) == b /= 0 /\ a > SIZE_MAX \div b

AlignUp(a, align) == a + ((align - (a % align)) % align)

(* ----- heap primitives (WC_MALLOC, WC_FREE) ----------------------------- *)

(* heap.live   : address -> size of every region malloc returned and free  *)
(*               has not released                                          *)
(* heap.target,                                                            *)
(* heap.count  : allocation-failure injection, oom_target and oom_count of *)
(*               the test suite: malloc counts its calls and the call      *)
(*               numbered target returns NULL (target 0: none does)        *)
(* heap.bad    : a release of an address that is not a live region happened *)
EmptyHeap == [live |-> <<>>, target |-> 0, count |-> 0, bad |-> FALSE]

\* oom_arm(n)
oom_arm(heap, n) == [heap EXCEPT !.target = n, !.count = 0]

\* oom_reset()
oom_reset(heap) == [heap EXCEPT !.target = 0, !.count = 0]

\* the region [a, a + n) lies in the heap and meets no live region
HeapFits(heap, a, n) ==
    /\ n <= (HeapBase + HeapBytes) - a
    /\ \A q \in DOMAIN heap.live : a + n <= q \/ q + heap.live[q] <= a

\* WC_MALLOC(n): [p, heap]; the lowest aligned address where n bytes fit
Malloc(heap, n) ==
    LET counted == [heap EXCEPT !.count = @ + 1]
        starts == {HeapBase} \cup
                  {AlignUp(q + heap.live[q], MallocAlign) : q \in DOMAIN heap.live}
        free == {a \in starts : HeapFits(heap, a, n)} IN
    IF counted.count = heap.target \/ free = {}
    THEN [p |-> NULL, heap |-> counted]
    ELSE LET a == CHOOSE x \in free : \A y \in free : x <= y IN
         [p |-> a, heap |-> [counted EXCEPT !.live = (a :> n) @@ @]]

\* WC_FREE(p)
Free(heap, p) ==
    IF p = NULL THEN heap
    ELSE IF p \in DOMAIN heap.live
    THEN [heap EXCEPT !.live = [q \in (DOMAIN @) \ {p} |-> @[q]]]
    ELSE [heap EXCEPT !.bad = TRUE]

(* ----- budgeted allocator ----------------------------------------------- *)

\* wc_xmalloc_state without the test of bytes_limit outside static mode
wc_xmalloc_state_unbudgeted(st, heap, n) ==
    IF n = 0 THEN [p |-> NULL, st |-> st, heap |-> heap]
    ELSE IF ~st.static_mode THEN
        IF add_overflows(st.bytes_used, n)
        THEN [p |-> NULL, st |-> st, heap |-> heap]
        ELSE LET new_used == st.bytes_used + n IN
             Bind(Malloc(heap, n), LAMBDA r :
                  IF r.p = NULL
                  THEN [p |-> NULL, st |-> st, heap |-> r.heap]
                  ELSE [p |-> r.p,
                        st |-> [st EXCEPT !.bytes_used = new_used],
                        heap |-> r.heap])
    ELSE
        LET align == WC_ALIGN
            off == st.sbuf_used
            pad == (align - (off % align)) % align
            fail == [p |-> NULL, st |-> st, heap |-> heap] IN
        IF add_overflows(pad, n) THEN fail
        ELSE LET real == pad + n IN
             IF add_overflows(st.sbuf_used, real) THEN fail
             ELSE IF st.sbuf_used + real > st.sbuf_size THEN fail
             ELSE IF add_overflows(st.bytes_used, real) THEN fail
             ELSE LET new_used == st.bytes_used + real IN
                  IF st.bytes_limit /= 0 /\ new_used > st.bytes_limit THEN fail
                  ELSE [p |-> st.sbuf + st.sbuf_used + pad,
                        st |-> [st EXCEPT !.sbuf_used = @ + real,
                                          !.bytes_used = new_used],
                        heap |-> heap]

\* wc_xmalloc_state adding the request to bytes_used before WC_MALLOC is
\* called, and leaving it added when WC_MALLOC returns NULL
wc_xmalloc_state_charges_first(st, heap, n) ==
    IF n = 0 THEN [p |-> NULL, st |-> st, heap |-> heap]
    ELSE IF ~st.static_mode THEN
        IF add_overflows(st.bytes_used, n)
        THEN [p |-> NULL, st |-> st, heap |-> heap]
        ELSE LET new_used == st.bytes_used + n IN
             IF st.bytes_limit /= 0 /\ new_used > st.bytes_limit
             THEN [p |-> NULL, st |-> st, heap |-> heap]
             ELSE Bind(Malloc(heap, n), LAMBDA r :
                  [p |-> r.p,
                   st |-> [st EXCEPT !.bytes_used = new_used],
                   heap |-> r.heap])
    ELSE
        LET align == WC_ALIGN
            off == st.sbuf_used
            pad == (align - (off % align)) % align
            fail == [p |-> NULL, st |-> st, heap |-> heap] IN
        IF add_overflows(pad, n) THEN fail
        ELSE LET real == pad + n IN
             IF add_overflows(st.sbuf_used, real) THEN fail
             ELSE IF st.sbuf_used + real > st.sbuf_size THEN fail
             ELSE IF add_overflows(st.bytes_used, real) THEN fail
             ELSE LET new_used == st.bytes_used + real IN
                  IF st.bytes_limit /= 0 /\ new_used > st.bytes_limit THEN fail
                  ELSE [p |-> st.sbuf + st.sbuf_used + pad,
                        st |-> [st EXCEPT !.sbuf_used = @ + real,
                                          !.bytes_used = new_used],
                        heap |-> heap]

\* wc_xmalloc_state(st, n): [p, st, heap]
wc_xmalloc_state(st, heap, n) ==
    IF n = 0 THEN [p |-> NULL, st |-> st, heap |-> heap]
    ELSE IF ~st.static_mode THEN
        IF add_overflows(st.bytes_used, n)
        THEN [p |-> NULL, st |-> st, heap |-> heap]
        ELSE LET new_used == st.bytes_used + n IN
             IF st.bytes_limit /= 0 /\ new_used > st.bytes_limit
             THEN [p |-> NULL, st |-> st, heap |-> heap]
             ELSE Bind(Malloc(heap, n), LAMBDA r :
                  IF r.p = NULL
                  THEN [p |-> NULL, st |-> st, heap |-> r.heap]
                  ELSE [p |-> r.p,
                        st |-> [st EXCEPT !.bytes_used = new_used],
                        heap |-> r.heap])
    ELSE
        LET align == WC_ALIGN
            off == st.sbuf_used
            pad == (align - (off % align)) % align
            fail == [p |-> NULL, st |-> st, heap |-> heap] IN
        IF add_overflows(pad, n) THEN fail
        ELSE LET real == pad + n IN
             IF add_overflows(st.sbuf_used, real) THEN fail
             ELSE IF st.sbuf_used + real > st.sbuf_size THEN fail
             ELSE IF add_overflows(st.bytes_used, real) THEN fail
             ELSE LET new_used == st.bytes_used + real IN
                  IF st.bytes_limit /= 0 /\ new_used > st.bytes_limit THEN fail
                  ELSE [p |-> st.sbuf + st.sbuf_used + pad,
                        st |-> [st EXCEPT !.sbuf_used = @ + real,
                                          !.bytes_used = new_used],
                        heap |-> heap]

(* A machine state m is [w, mem, heap]: the counter object, the bytes the  *)
(* arena holds (key pointer -> the bytes stored there, NUL included) and   *)
(* the heap.                                                               *)

\* wc_xmalloc(w, n): [p, m]
wc_xmalloc(m, n) ==
    Bind(wc_xmalloc_state(m.w.alloc, m.heap, n), LAMBDA r :
         [p |-> r.p, m |-> [m EXCEPT !.w.alloc = r.st, !.heap = r.heap]])

\* wc_xfree calling WC_FREE in static mode as well
wc_xfree_frees_static(m, p, n) ==
    IF p = NULL THEN m
    ELSE [m EXCEPT !.heap = Free(m.heap, p),
                   !.w.alloc.bytes_used = IF @ >= n THEN @ - n ELSE 0]

\* wc_xfree leaving bytes_used as it was
wc_xfree_keeps_bytes_used(m, p, n) ==
    IF p = NULL THEN m
    ELSE IF ~m.w.alloc.static_mode
    THEN [m EXCEPT !.heap = Free(m.heap, p)]
    ELSE m

\* wc_xfree(w, p, n)
wc_xfree(m, p, n) ==
    IF p = NULL THEN m
    ELSE IF ~m.w.alloc.static_mode
    THEN [m EXCEPT !.heap = Free(m.heap, p),
                   !.w.alloc.bytes_used = IF @ >= n THEN @ - n ELSE 0]
    ELSE m

(* ----- arena ------------------------------------------------------------ *)

(* A block is [addr, cap, cur]: its address, the size of buf[] and the     *)
(* offset cur - buf.  arena.blocks is the list head .. tail.               *)

\* block_new(w, cap): [p, b, m]; p = NULL, or the address of the new block b
block_new(m, cap) ==
    LET none == [addr |-> NULL, cap |-> 0, cur |-> 0] IN
    IF add_overflows(SizeofBlock, cap) THEN [p |-> NULL, b |-> none, m |-> m]
    ELSE Bind(wc_xmalloc(m, SizeofBlock + cap), LAMBDA r :
         IF r.p = NULL THEN [p |-> NULL, b |-> none, m |-> r.m]
         ELSE [p |-> r.p, b |-> [addr |-> r.p, cap |-> cap, cur |-> 0],
               m |-> r.m])

\* arena_init(w, a, block_sz): [rc, m]
arena_init(m, block_sz) ==
    LET m0 == [m EXCEPT !.w.arena = [blocks |-> <<>>, block_sz |-> block_sz]]
    IN  Bind(block_new(m0, block_sz), LAMBDA r :
             IF r.p = NULL THEN [rc |-> -1, m |-> r.m]
             ELSE [rc |-> 0, m |-> [r.m EXCEPT !.w.arena.blocks = <<r.b>>]])

RECURSIVE FreeBlocks(_, _, _)
FreeBlocks(m, blocks, i) ==
    IF i > Len(blocks) THEN m
    ELSE FreeBlocks(wc_xfree(m, blocks[i].addr, SizeofBlock + blocks[i].cap),
                    blocks, i + 1)

\* arena_free(w)
arena_free(m) ==
    [FreeBlocks(m, m.w.arena.blocks, 1) EXCEPT !.w.arena.blocks = <<>>]

\* arena_alloc without the return of NULL in static mode: a block is
\* requested from the allocator in either mode
arena_alloc_chains_static(m, sz) ==
    LET align == WC_ALIGN
        a == m.w.arena
        nb == Len(a.blocks)
        tail == a.blocks[nb]
        offset == tail.cur
        pad == (align - (offset % align)) % align
        avail == tail.cap - tail.cur IN
    IF avail >= pad /\ avail - pad >= sz
    THEN LET p == tail.addr + SizeofBlock + tail.cur + pad IN
         [p |-> p,
          m |-> [m EXCEPT !.w.arena.blocks[nb].cur = offset + pad + sz,
                          !.mem = (p :> [i \in 1..sz |-> 0]) @@ @]]
    ELSE IF add_overflows(sz, align) THEN [p |-> NULL, m |-> m]
    ELSE LET need == sz + align
             cap == IF need > a.block_sz THEN need ELSE a.block_sz
         IN  Bind(block_new(m, cap), LAMBDA r :
             IF r.p = NULL THEN [p |-> NULL, m |-> r.m]
             ELSE LET p == r.b.addr + SizeofBlock IN
                  [p |-> p,
                   m |-> [r.m EXCEPT
                            !.w.arena.blocks = Append(@, [r.b EXCEPT !.cur = sz]),
                            !.mem = (p :> [i \in 1..sz |-> 0]) @@ @]])

\* arena_alloc without the chaining of a further block: NULL in either mode
\* once the tail block has no room
arena_alloc_one_block(m, sz) ==
    LET align == WC_ALIGN
        a == m.w.arena
        nb == Len(a.blocks)
        tail == a.blocks[nb]
        offset == tail.cur
        pad == (align - (offset % align)) % align
        avail == tail.cap - tail.cur IN
    IF avail >= pad /\ avail - pad >= sz
    THEN LET p == tail.addr + SizeofBlock + tail.cur + pad IN
         [p |-> p,
          m |-> [m EXCEPT !.w.arena.blocks[nb].cur = offset + pad + sz,
                          !.mem = (p :> [i \in 1..sz |-> 0]) @@ @]]
    ELSE [p |-> NULL, m |-> m]

\* arena_alloc starting the tail block over when it has no room: the bytes
\* handed out before are handed out again
arena_alloc_rewinds(m, sz) ==
    LET align == WC_ALIGN
        a == m.w.arena
        nb == Len(a.blocks)
        tail == a.blocks[nb]
        offset == tail.cur
        pad == (align - (offset % align)) % align
        avail == tail.cap - tail.cur IN
    IF avail >= pad /\ avail - pad >= sz
    THEN LET p == tail.addr + SizeofBlock + tail.cur + pad IN
         [p |-> p,
          m |-> [m EXCEPT !.w.arena.blocks[nb].cur = offset + pad + sz,
                          !.mem = (p :> [i \in 1..sz |-> 0]) @@ @]]
    ELSE IF sz > tail.cap THEN [p |-> NULL, m |-> m]
    ELSE LET p == tail.addr + SizeofBlock IN
         [p |-> p,
          m |-> [m EXCEPT !.w.arena.blocks[nb].cur = sz,
                          !.mem = (p :> [i \in 1..sz |-> 0]) @@ @]]

\* arena_alloc(w, sz): [p, m], p = NULL or the address of sz zeroed bytes
arena_alloc(m, sz) ==
    LET align == WC_ALIGN
        a == m.w.arena
        nb == Len(a.blocks)
        tail == a.blocks[nb]
        offset == tail.cur
        pad == (align - (offset % align)) % align
        avail == tail.cap - tail.cur IN
    IF avail >= pad /\ avail - pad >= sz
    THEN LET p == tail.addr + SizeofBlock + tail.cur + pad IN
         [p |-> p,
          m |-> [m EXCEPT !.w.arena.blocks[nb].cur = offset + pad + sz,
                          !.mem = (p :> [i \in 1..sz |-> 0]) @@ @]]
    ELSE IF m.w.alloc.static_mode THEN [p |-> NULL, m |-> m]
    ELSE IF add_overflows(sz, align) THEN [p |-> NULL, m |-> m]
    ELSE LET need == sz + align
             cap == IF need > a.block_sz THEN need ELSE a.block_sz
         IN  Bind(block_new(m, cap), LAMBDA r :
             IF r.p = NULL THEN [p |-> NULL, m |-> r.m]
             ELSE LET p == r.b.addr + SizeofBlock IN
                  [p |-> p,
                   m |-> [r.m EXCEPT
                            !.w.arena.blocks = Append(@, [r.b EXCEPT !.cur = sz]),
                            !.mem = (p :> [i \in 1..sz |-> 0]) @@ @]])

(* ----- hash table ------------------------------------------------------- *)

(* A slot is [word, n, cnt, hash]: key pointer, key length, occurrence     *)
(* count, stored hash.  Occupied(tab, i) is tab[i].word != NULL.           *)
Occupied(tab, i) == i \in DOMAIN tab

\* the occupied slot indexes below cap, as the loops over 0 .. cap-1 meet them
SlotOrder(S) ==
    Tabulated([k \in 1..Cardinality(S) |->
                  CHOOSE x \in S : Cardinality({y \in S : y < x}) = k - 1])

OccupiedBelow(tab, cap) == {i \in DOMAIN tab : i < cap}

\* the probe of the rehash going down from idx: idx, idx - 1, ... taken
\* modulo the power of two nc
GrowProbe_backward(ns, idx, nc) ==
    LET d == CHOOSE i \in 0..(nc - 1) :
                 /\ ~Occupied(ns, BitAnd(idx + nc - i, nc - 1))
                 /\ \A j \in 0..(i - 1) :
                        Occupied(ns, BitAnd(idx + nc - j, nc - 1))
    IN  BitAnd(idx + nc - d, nc - 1)

\* while (ns[idx].word) idx = (idx + 1) & (nc - 1);  the first free slot of
\* idx, idx + 1, ... taken modulo the power of two nc
GrowProbe(ns, idx, nc) ==
    LET d == CHOOSE i \in 0..(nc - 1) :
                 /\ ~Occupied(ns, BitAnd(idx + i, nc - 1))
                 /\ \A j \in 0..(i - 1) : Occupied(ns, BitAnd(idx + j, nc - 1))
    IN  BitAnd(idx + d, nc - 1)

RECURSIVE GrowCopy(_, _, _, _, _, _)
\* the rehash loop of tab_grow over the old slots order[lo .. hi], in that
\* order, into the new array ns; the range is halved so that the evaluation
\* nests to the logarithm of its length
GrowCopy(tab, order, lo, hi, ns, nc) ==
    IF lo > hi THEN ns
    ELSE IF lo = hi
    THEN LET s == tab[order[lo]]
             idx == GrowProbe(ns, HashAnd(s.hash, nc - 1), nc)
         IN  (idx :> s) @@ ns
    ELSE Bind(GrowCopy(tab, order, lo, (lo + hi) \div 2, ns, nc),
              LAMBDA first :
              Eval(first,
                   GrowCopy(tab, order, ((lo + hi) \div 2) + 1, hi, first, nc)))

\* the rehash of tab_grow probing from hash & (cap - 1), the mask of the old
\* capacity
grow_rehash_old_mask(tab, cap, nc) ==
    Bind(SlotOrder(OccupiedBelow(tab, cap)), LAMBDA order :
         GrowCopy(tab, order, 1, Len(order), <<>>, cap))

\* the rehash of tab_grow: the nc slots ns filled from the occupied old slots
\* in the order of their indexes
grow_rehash(tab, cap, nc) ==
    Bind(SlotOrder(OccupiedBelow(tab, cap)), LAMBDA order :
         GrowCopy(tab, order, 1, Len(order), <<>>, nc))

\* tab_grow releasing the old slot array before the new one is allocated, and
\* left without a slot array when the allocation fails
tab_grow_frees_first(m) ==
    IF mul_overflows(m.w.cap, 2) THEN [rc |-> -1, m |-> m]
    ELSE LET nc == m.w.cap * 2 IN
    IF mul_overflows(nc, SizeofSlot) THEN [rc |-> -1, m |-> m]
    ELSE Bind(wc_xfree(m, m.w.tabp, m.w.cap * SizeofSlot), LAMBDA freed :
         Bind(wc_xmalloc(freed, nc * SizeofSlot), LAMBDA r :
    IF r.p = NULL
    THEN [rc |-> -1, m |-> [r.m EXCEPT !.w.tab = <<>>, !.w.tabp = NULL]]
    ELSE [rc |-> 0,
          m |-> [r.m EXCEPT !.w.tab = grow_rehash(m.w.tab, m.w.cap, nc),
                            !.w.tabp = r.p, !.w.cap = nc]]))

\* tab_grow without the release of the old slot array
tab_grow_keeps_old(m) ==
    IF mul_overflows(m.w.cap, 2) THEN [rc |-> -1, m |-> m]
    ELSE LET nc == m.w.cap * 2 IN
    IF mul_overflows(nc, SizeofSlot) THEN [rc |-> -1, m |-> m]
    ELSE Bind(wc_xmalloc(m, nc * SizeofSlot), LAMBDA r :
    IF r.p = NULL THEN [rc |-> -1, m |-> r.m]
    ELSE [rc |-> 0,
          m |-> [r.m EXCEPT !.w.tab = grow_rehash(m.w.tab, m.w.cap, nc),
                            !.w.tabp = r.p, !.w.cap = nc]])

\* tab_grow(w): [rc, m]
tab_grow(m) ==
    IF mul_overflows(m.w.cap, 2) THEN [rc |-> -1, m |-> m]
    ELSE LET nc == m.w.cap * 2 IN
    IF mul_overflows(nc, SizeofSlot) THEN [rc |-> -1, m |-> m]
    ELSE Bind(wc_xmalloc(m, nc * SizeofSlot), LAMBDA r :
    IF r.p = NULL THEN [rc |-> -1, m |-> r.m]
    ELSE LET ns == grow_rehash(m.w.tab, m.w.cap, nc)
             old_tab == m.w.tabp
             old_alloc == m.w.cap * SizeofSlot
             m1 == [r.m EXCEPT !.w.tab = ns, !.w.tabp = r.p, !.w.cap = nc]
         IN  [rc |-> 0, m |-> wc_xfree(m1, old_tab, old_alloc)])

\* memcmp(s->word, word, n) == 0
KeyBytesEqual(mem, p, word, n) ==
    \A i \in 1..n : mem[p][i] = word[i]

\* the comparison of tab_find on the stored hash alone
slot_matches_hash_only(mem, s, word, n, h) == s.hash = h

\* the comparison of tab_find: stored hash, stored length, then the bytes
slot_matches(mem, s, word, n, h) ==
    s.hash = h /\ s.n = n /\ KeyBytesEqual(mem, s.word, word, n)

\* tab_find without the probe sequence: the home slot of the hash, whatever
\* it holds
tab_find_home_slot(m, word, n, h) ==
    [null |-> FALSE, idx |-> HashAnd(h, m.w.cap - 1)]

\* tab_find(w, word, n, h): the slot found, or null for a full table.  The
\* do .. while (idx != start) loop visits start, start + 1, ... modulo the
\* power of two cap, cap slots at most, and returns at the first that is
\* empty or holds the key.
tab_find(m, word, n, h) ==
    LET start == HashAnd(h, m.w.cap - 1)
        at(d) == BitAnd(start + d, m.w.cap - 1)
        stops(d) == \/ ~Occupied(m.w.tab, at(d))
                    \/ slot_matches(m.mem, m.w.tab[at(d)], word, n, h)
    IN  IF \E d \in 0..(m.w.cap - 1) : stops(d)
        THEN [null |-> FALSE,
              idx |-> at(CHOOSE d \in 0..(m.w.cap - 1) :
                             stops(d) /\ \A e \in 0..(d - 1) : ~stops(e))]
        ELSE [null |-> TRUE, idx |-> 0]

\* the load-factor test of tab_insert
at_threshold(len, cap) == len * 10 >= cap * 7

\* s->cnt++; w->tot++; with the total left as it was
count_again_keeps_tot(m, idx) ==
    [m EXCEPT !.w.tab[idx].cnt = @ + 1]

\* the branch of tab_insert for a key that is present: s->cnt++; w->tot++;
count_again(m, idx) ==
    [m EXCEPT !.w.tab[idx].cnt = @ + 1, !.w.tot = @ + 1]

\* the new-entry branch with w->len left as it was
store_key_keeps_len(m, idx, p, word, n, h) ==
    [m EXCEPT
        !.mem[p] = [i \in 1..(n + 1) |-> IF i <= n THEN word[i] ELSE @[i]],
        !.w.tab = (idx :> [word |-> p, n |-> n, hash |-> h, cnt |-> 1]) @@ @,
        !.w.tot = @ + 1]

\* the new-entry branch putting the key in the home slot of its hash and
\* moving the entry it finds there to the free slot idx
store_key_at_home(m, idx, p, word, n, h) ==
    LET home == HashAnd(h, m.w.cap - 1)
        new == [word |-> p, n |-> n, hash |-> h, cnt |-> 1]
    IN  [m EXCEPT
            !.mem[p] = [i \in 1..(n + 1) |-> IF i <= n THEN word[i] ELSE @[i]],
            !.w.tab = IF home = idx THEN (idx :> new) @@ @
                      ELSE (home :> new) @@ (idx :> @[home]) @@ @,
            !.w.len = @ + 1,
            !.w.tot = @ + 1]

\* the branch of tab_insert for a new key, copied to the arena bytes at p:
\* memcpy(copy, word, n); s->word = copy; s->n = n; s->hash = h; s->cnt = 1;
\* w->len++; w->tot++;
store_key(m, idx, p, word, n, h) ==
    [m EXCEPT
        !.mem[p] = [i \in 1..(n + 1) |-> IF i <= n THEN word[i] ELSE @[i]],
        !.w.tab = (idx :> [word |-> p, n |-> n, hash |-> h, cnt |-> 1]) @@ @,
        !.w.len = @ + 1,
        !.w.tot = @ + 1]

\* the probe and insert steps of tab_insert with w->tot++ made before the key
\* is stored, and kept when arena_alloc fails
tab_insert_probe_counts_first(m, word, n, h) ==
    Bind(tab_find(m, word, n, h), LAMBDA s :
    IF s.null THEN [rc |-> -1, m |-> m]
    ELSE IF Occupied(m.w.tab, s.idx)
    THEN [rc |-> 0, m |-> count_again(m, s.idx)]
    ELSE IF add_overflows(n, 1) THEN [rc |-> -1, m |-> m]
    ELSE Bind(arena_alloc(m, n + 1), LAMBDA r :
         IF r.p = NULL THEN [rc |-> -1, m |-> [r.m EXCEPT !.w.tot = @ + 1]]
         ELSE [rc |-> 0, m |-> store_key(r.m, s.idx, r.p, word, n, h)]))

\* the probe and insert steps of tab_insert with the copy of the key
\* requested of the arena before the key is looked up
tab_insert_probe_allocates_first(m, word, n, h) ==
    IF add_overflows(n, 1) THEN [rc |-> -1, m |-> m]
    ELSE Bind(arena_alloc(m, n + 1), LAMBDA r :
    IF r.p = NULL THEN [rc |-> -1, m |-> r.m]
    ELSE Bind(tab_find(r.m, word, n, h), LAMBDA s :
    IF s.null THEN [rc |-> -1, m |-> r.m]
    ELSE IF Occupied(r.m.w.tab, s.idx)
    THEN [rc |-> 0, m |-> count_again(r.m, s.idx)]
    ELSE [rc |-> 0, m |-> store_key(r.m, s.idx, r.p, word, n, h)]))

\* tab_insert after the load-factor step
tab_insert_probe(m, word, n, h) ==
    Bind(tab_find(m, word, n, h), LAMBDA s :
    IF s.null THEN [rc |-> -1, m |-> m]
    ELSE IF Occupied(m.w.tab, s.idx)
    THEN [rc |-> 0, m |-> count_again(m, s.idx)]
    ELSE IF add_overflows(n, 1) THEN [rc |-> -1, m |-> m]
    ELSE Bind(arena_alloc(m, n + 1), LAMBDA r :
         IF r.p = NULL THEN [rc |-> -1, m |-> r.m]
         ELSE [rc |-> 0, m |-> store_key(r.m, s.idx, r.p, word, n, h)]))

\* tab_insert without the load-factor step
tab_insert_never_grows(m, word, n, h) ==
    tab_insert_probe(m, word, n, h)

\* the load-factor step of tab_insert letting a static table fill beyond the
\* threshold
tab_insert_load_fills_static(m) ==
    IF at_threshold(m.w.len, m.w.cap) /\ ~m.w.alloc.static_mode
    THEN tab_grow(m)
    ELSE [rc |-> 0, m |-> m]

\* the load-factor step of tab_insert with the two factors of its test
\* exchanged
tab_insert_load_factors_swapped(m) ==
    IF m.w.len * 7 >= m.w.cap * 10
    THEN IF m.w.alloc.static_mode THEN [rc |-> -1, m |-> m]
         ELSE tab_grow(m)
    ELSE [rc |-> 0, m |-> m]

\* the load-factor step of tab_insert: [rc, m], rc < 0 where it returns -1
tab_insert_load(m) ==
    IF at_threshold(m.w.len, m.w.cap)
    THEN IF m.w.alloc.static_mode THEN [rc |-> -1, m |-> m]
         ELSE tab_grow(m)
    ELSE [rc |-> 0, m |-> m]

\* tab_insert(w, word, n, h): [rc, m]
tab_insert(m, word, n, h) ==
    Bind(tab_insert_load(m), LAMBDA g :
         IF g.rc < 0 THEN [rc |-> -1, m |-> g.m]
         ELSE tab_insert_probe(g.m, word, n, h))

(* ----- parameter tuning and construction -------------------------------- *)

(* wc_limits is [nil, max_bytes, init_cap, block_size, static_buf,         *)
(* static_size, hash_seed]; nil stands for a NULL limits pointer and       *)
(* hash_seed, an unsigned long, is the tuple of its four 16-bit parts,     *)
(* most significant first.                                                 *)

\* the round-down loop of tune_params rounding up: the first 2^k >= max_cap
RoundDownPow2_rounds_up(max_cap) ==
    LET k == CHOOSE i \in 0..30 :
                 /\ i = 30 \/ 2^i >= max_cap
                 /\ \A j \in 0..(i - 1) : 2^j < max_cap
    IN  2^k

\* p = 1; while ((p << 1) <= max_cap) p <<= 1;  the first p = 2^k at which
\* the loop test fails
RoundDownPow2(max_cap) ==
    LET k == CHOOSE i \in 0..30 :
                 /\ ~(i < 30 /\ 2^(i + 1) <= max_cap)
                 /\ \A j \in 0..(i - 1) : 2^(j + 1) <= max_cap
    IN  2^k

\* the round-up step of tune_params left out: cap as it is
RoundUpPow2_keeps_cap(cap) == cap

\* p = 1; while (p < cap && p <= (SIZE_MAX / 2)) p <<= 1;  the first p = 2^k
\* at which the loop test fails
RoundUpPow2(cap) ==
    LET k == CHOOSE i \in 0..30 :
                 /\ ~(2^i < cap /\ 2^i <= SIZE_MAX \div 2)
                 /\ \A j \in 0..(i - 1) : 2^j < cap /\ 2^j <= SIZE_MAX \div 2
    IN  2^k

\* tune_params(lim, &init_cap, &block_sz): [init_cap, block_sz]
tune_params(lim) ==
    LET cap0 == IF ~lim.nil /\ lim.init_cap /= 0 THEN lim.init_cap
                ELSE WC_DEFAULT_INIT_CAP
        blk0 == IF ~lim.nil /\ lim.block_size /= 0 THEN lim.block_size
                ELSE WC_DEFAULT_BLOCK_SZ
        budget0 == IF lim.nil THEN 0 ELSE lim.max_bytes
        budget == IF ~lim.nil /\ lim.static_buf /= NULL /\ lim.static_size /= 0
                     /\ (budget0 = 0 \/ lim.static_size < budget0)
                  THEN lim.static_size ELSE budget0
        table_budget == budget \div 2
        cap1 == IF budget /= 0 /\ ~mul_overflows(cap0, SizeofSlot)
                   /\ cap0 * SizeofSlot > table_budget /\ table_budget > 0
                THEN LET mc == table_budget \div SizeofSlot
                         max_cap == IF mc < WC_MIN_INIT_CAP
                                    THEN WC_MIN_INIT_CAP ELSE mc
                     IN  RoundDownPow2(max_cap)
                ELSE cap0
        max_blk == (budget - table_budget) \div 4
        blk1 == IF budget /= 0 /\ max_blk > 0 /\ blk0 > max_blk
                THEN max_blk ELSE blk0
        cap2 == IF cap1 < WC_MIN_INIT_CAP THEN WC_MIN_INIT_CAP ELSE cap1
    IN  [init_cap |-> RoundUpPow2(cap2),
         block_sz |-> IF blk1 < WC_MIN_BLOCK_SZ THEN WC_MIN_BLOCK_SZ ELSE blk1]

ZeroAlloc ==
    [bytes_used |-> 0, bytes_limit |-> 0, static_mode |-> FALSE,
     sbuf |-> NULL, sbuf_size |-> 0, sbuf_used |-> 0]

\* the handle right after memset(w, 0, sizeof *w)
ZeroWc ==
    [tab |-> <<>>, tabp |-> NULL, cap |-> 0, len |-> 0, tot |-> 0, maxw |-> 0,
     arena |-> [blocks |-> <<>>, block_sz |-> 0], alloc |-> ZeroAlloc,
     seed |-> <<0, 0>>, scanbuf |-> NULL]

\* the allocator state wc_open_ex configures from the limits
open_alloc(lim) ==
    LET static == ~lim.nil /\ lim.static_buf /= NULL /\ lim.static_size > 0
        st == IF static
              THEN [ZeroAlloc EXCEPT !.static_mode = TRUE,
                                     !.sbuf = lim.static_buf,
                                     !.sbuf_size = lim.static_size]
              ELSE ZeroAlloc
    IN  IF ~lim.nil /\ lim.max_bytes /= 0
        THEN [st EXCEPT !.bytes_limit =
                 IF static /\ lim.static_size > 0
                    /\ lim.max_bytes > lim.static_size
                 THEN lim.static_size ELSE lim.max_bytes]
        ELSE st

\* the clamp of wc_open_ex without if (max_word > WC_MAX_WORD)
clamp_max_word_no_ceiling(max_word) ==
    LET a == IF max_word = 0 THEN DEF_WORD ELSE max_word
    IN  IF a < MIN_WORD THEN MIN_WORD ELSE a

\* max_word clamped into [MIN_WORD, WC_MAX_WORD], 0 meaning DEF_WORD
clamp_max_word(max_word) ==
    LET a == IF max_word = 0 THEN DEF_WORD ELSE max_word
        b == IF a < MIN_WORD THEN MIN_WORD ELSE a
    IN  IF b > WC_MAX_WORD THEN WC_MAX_WORD ELSE b

\* the block size of wc_open_ex without the floor at maxw + 1
open_block_sz_min_only(block_sz, maxw) ==
    IF block_sz < WC_MIN_BLOCK_SZ THEN WC_MIN_BLOCK_SZ ELSE block_sz

\* the first arena block holds at least one word of maxw bytes and its NUL
open_block_sz(block_sz, maxw) ==
    LET need == maxw + 1
        b == IF block_sz < need THEN need ELSE block_sz
    IN  IF b < WC_MIN_BLOCK_SZ THEN WC_MIN_BLOCK_SZ ELSE b

\* the seed basis: FNV_OFF_32 ^ (hs ^ (hs >> 32)) for a nonzero hash_seed
open_seed(lim) ==
    IF ~lim.nil /\ lim.hash_seed /= <<0, 0, 0, 0>>
    THEN LET hs == lim.hash_seed
         IN  Xor32(FNV_OFF_32, Xor32(<<hs[3], hs[4]>>, <<hs[1], hs[2]>>))
    ELSE FNV_OFF_32

\* the static-mode preflight on a scratch copy of the allocator state
preflight_ok(st, heap, init_cap, block_sz, maxw) ==
    IF mul_overflows(init_cap, SizeofSlot) THEN FALSE
    ELSE Bind(wc_xmalloc_state(st, heap, init_cap * SizeofSlot), LAMBDA r1 :
    IF r1.p = NULL THEN FALSE
    ELSE IF add_overflows(SizeofBlock, block_sz) THEN FALSE
    ELSE Bind(wc_xmalloc_state(r1.st, r1.heap, SizeofBlock + block_sz),
              LAMBDA r2 :
    IF r2.p = NULL THEN FALSE
    ELSE IF WC_STACK_BUFFER THEN TRUE
    ELSE wc_xmalloc_state(r2.st, r2.heap, maxw).p /= NULL))

\* the allocations of wc_open_ex once the handle is configured: [ok, m]
open_allocate(m, init_cap, block_sz) ==
    IF mul_overflows(init_cap, SizeofSlot) THEN [ok |-> FALSE, m |-> m]
    ELSE LET table_bytes == init_cap * SizeofSlot IN
    Bind(wc_xmalloc(m, table_bytes), LAMBDA t :
    IF t.p = NULL THEN [ok |-> FALSE, m |-> t.m]
    ELSE LET m1 == [t.m EXCEPT !.w.tabp = t.p, !.w.tab = <<>>,
                               !.w.cap = init_cap] IN
    Bind(arena_init(m1, block_sz), LAMBDA a :
    IF a.rc < 0
    THEN [ok |-> FALSE,
          m |-> [wc_xfree(a.m, t.p, table_bytes) EXCEPT !.w.tabp = NULL,
                                                        !.w.cap = 0]]
    ELSE IF WC_STACK_BUFFER THEN [ok |-> TRUE, m |-> a.m]
    ELSE Bind(wc_xmalloc(a.m, a.m.w.maxw), LAMBDA b :
         IF b.p /= NULL
         THEN [ok |-> TRUE, m |-> [b.m EXCEPT !.w.scanbuf = b.p]]
         ELSE [ok |-> FALSE,
               m |-> [wc_xfree(arena_free(b.m), t.p, table_bytes)
                        EXCEPT !.w.tabp = NULL, !.w.cap = 0]])))

\* wc_open_ex making the static-mode preflight on the allocator state of the
\* handle itself, not on a scratch copy of it
wc_open_ex_preflight_in_place(heap, max_word, lim) ==
    Bind(tune_params(lim), LAMBDA tuned :
    Bind(Malloc(heap, SizeofWc), LAMBDA h :
    LET none == [handle |-> NULL,
                 m |-> [w |-> ZeroWc, mem |-> <<>>, heap |-> Free(h.heap, h.p)]]
    IN
    IF h.p = NULL
    THEN [handle |-> NULL, m |-> [w |-> ZeroWc, mem |-> <<>>, heap |-> h.heap]]
    ELSE Bind(open_alloc(lim), LAMBDA st :
    IF st.static_mode /\ st.sbuf % WC_ALIGN /= 0 THEN none
    ELSE LET maxw == clamp_max_word(max_word) IN
    IF add_overflows(maxw, 1) THEN none
    ELSE LET block_sz == open_block_sz(tuned.block_sz, maxw)
             table == wc_xmalloc_state(st, h.heap, tuned.init_cap * SizeofSlot)
             arena == wc_xmalloc_state(table.st, h.heap, SizeofBlock + block_sz)
             m0 == [w |-> [ZeroWc EXCEPT
                              !.alloc = IF st.static_mode THEN arena.st ELSE st,
                              !.maxw = maxw, !.seed = open_seed(lim)],
                    mem |-> <<>>, heap |-> h.heap] IN
    IF st.static_mode
       /\ ~preflight_ok(st, h.heap, tuned.init_cap, block_sz, maxw)
    THEN none
    ELSE Bind(open_allocate(m0, tuned.init_cap, block_sz), LAMBDA r :
         IF r.ok THEN [handle |-> h.p, m |-> r.m]
         ELSE [handle |-> NULL,
               m |-> [w |-> ZeroWc, mem |-> <<>>,
                      heap |-> Free(r.m.heap, h.p)]]))))

\* wc_open_ex(max_word, limits): [handle, m]; handle = NULL on failure
wc_open_ex(heap, max_word, lim) ==
    Bind(tune_params(lim), LAMBDA tuned :
    Bind(Malloc(heap, SizeofWc), LAMBDA h :
    LET none == [handle |-> NULL,
                 m |-> [w |-> ZeroWc, mem |-> <<>>, heap |-> Free(h.heap, h.p)]]
    IN
    IF h.p = NULL
    THEN [handle |-> NULL, m |-> [w |-> ZeroWc, mem |-> <<>>, heap |-> h.heap]]
    ELSE Bind(open_alloc(lim), LAMBDA st :
    IF st.static_mode /\ st.sbuf % WC_ALIGN /= 0 THEN none
    ELSE LET maxw == clamp_max_word(max_word) IN
    IF add_overflows(maxw, 1) THEN none
    ELSE LET block_sz == open_block_sz(tuned.block_sz, maxw)
             m0 == [w |-> [ZeroWc EXCEPT !.alloc = st, !.maxw = maxw,
                                         !.seed = open_seed(lim)],
                    mem |-> <<>>, heap |-> h.heap] IN
    IF st.static_mode
       /\ ~preflight_ok(st, h.heap, tuned.init_cap, block_sz, maxw)
    THEN none
    ELSE Bind(open_allocate(m0, tuned.init_cap, block_sz), LAMBDA r :
         IF r.ok THEN [handle |-> h.p, m |-> r.m]
         ELSE [handle |-> NULL,
               m |-> [w |-> ZeroWc, mem |-> <<>>,
                      heap |-> Free(r.m.heap, h.p)]]))))

\* wc_close(w) on a non-null handle
wc_close(m, handle) ==
    LET m1 == IF ~WC_STACK_BUFFER /\ m.w.scanbuf /= NULL
              THEN wc_xfree(m, m.w.scanbuf, m.w.maxw) ELSE m
        m2 == IF m1.w.tabp /= NULL /\ m1.w.cap /= 0
              THEN wc_xfree(m1, m1.w.tabp, m1.w.cap * SizeofSlot) ELSE m1
        m3 == arena_free(m2)
    IN  [w |-> ZeroWc, mem |-> <<>>, heap |-> Free(m3.heap, handle)]

(* ----- word insertion and scanning -------------------------------------- *)

\* the loop of wc_add without its n < w->maxw: the bytes before the first NUL
AddLen_to_nul(word, maxw) ==
    CHOOSE n \in 0..(Len(word) - 1) :
        word[n + 1] = 0 /\ \A j \in 1..n : word[j] /= 0

\* for (n = 0; n < w->maxw && word[n] != '\0'; n++) of wc_add: the number of
\* bytes before the first NUL, at most maxw
AddLen(word, maxw) ==
    LET nul == CHOOSE i \in 1..Len(word) :
                   word[i] = 0 /\ \A j \in 1..(i - 1) : word[j] /= 0
    IN  IF nul - 1 < maxw THEN nul - 1 ELSE maxw

\* wc_add(w, word) on a non-null handle and a non-null word: [rc, m]
wc_add(m, word) ==
    Bind(AddLen(word, m.w.maxw), LAMBDA n :
    IF n = 0 THEN [rc |-> WC_OK, m |-> m]
    ELSE Bind(tab_insert(m, word, n, fnv32(word, n, m.w.seed)), LAMBDA r :
         [rc |-> IF r.rc < 0 THEN WC_NOMEM ELSE WC_OK, m |-> r.m]))

\* (unsigned)c | 32u
Or32(c) == IF (c \div 32) % 2 = 1 THEN c ELSE c + 32

\* isalpha_ without the | 32u: (unsigned)c - 'a' < 26u
isalpha_no_fold(c) == c >= 97 /\ c - 97 < 26

\* isalpha_(c): ((unsigned)c | 32u) - 'a' < 26u, in unsigned arithmetic
isalpha_(c) == Or32(c) >= 97 /\ Or32(c) - 97 < 26

\* the offset where while (p < end && isalpha_(*p)) stops when entered at p
RunEnd(text, len, p) ==
    CHOOSE q \in p..len :
        /\ q = len \/ ~isalpha_(text[q + 1])
        /\ \A r \in p..(q - 1) : isalpha_(text[r + 1])

\* the inner letter loop of wc_scan hashing every letter of the run, also
\* those beyond maxw
ScanWord_hashes_run(text, len, p, maxw, seed) ==
    LET q == RunEnd(text, len, p)
        n == IF q - p < maxw THEN q - p ELSE maxw
        buf == Tabulated([i \in 1..n |-> Or32(text[p + i])])
        run == Tabulated([i \in 1..(q - p) |-> Or32(text[p + i])])
    IN  [p |-> q, buf |-> buf, h |-> FnvLoop(run, 1, q - p, seed)]

\* the inner letter loop of wc_scan storing c = *p without the | 32
ScanWord_keeps_case(text, len, p, maxw, seed) ==
    LET q == RunEnd(text, len, p)
        n == IF q - p < maxw THEN q - p ELSE maxw
        buf == Tabulated([i \in 1..n |-> text[p + i]])
    IN  [p |-> q, buf |-> buf, h |-> FnvLoop(buf, 1, n, seed)]

\* the inner letter loop of wc_scan entered at the letter at offset p:
\* [p, buf, h]; buf takes c = *p | 32 while n < maxw, and h the hash of buf
ScanWord(text, len, p, maxw, seed) ==
    LET q == RunEnd(text, len, p)
        n == IF q - p < maxw THEN q - p ELSE maxw
        buf == Tabulated([i \in 1..n |-> Or32(text[p + i])])
    IN  [p |-> q, buf |-> buf, h |-> FnvLoop(buf, 1, n, seed)]

\* the offsets at which the outer loop of wc_scan finds a word: the letters
\* that begin the text or follow a byte that is no letter, in ascending order
WordStarts(text, len) ==
    SlotOrder({p \in 0..(len - 1) :
                  /\ isalpha_(text[p + 1])
                  /\ p = 0 \/ ~isalpha_(text[p])})

RECURSIVE ScanLoop_continues(_, _, _, _, _, _)
\* the loop of wc_scan going on to the next word after a failing tab_insert
\* and returning WC_NOMEM at the end
ScanLoop_continues(m, text, len, starts, lo, hi) ==
    IF lo > hi THEN [rc |-> WC_OK, m |-> m]
    ELSE IF lo = hi
    THEN Bind(ScanWord(text, len, starts[lo], m.w.maxw, m.w.seed), LAMBDA t :
         Bind(tab_insert(m, t.buf, Len(t.buf), t.h), LAMBDA r :
         [rc |-> IF r.rc < 0 THEN WC_NOMEM ELSE WC_OK, m |-> r.m]))
    ELSE Bind(ScanLoop_continues(m, text, len, starts, lo, (lo + hi) \div 2),
              LAMBDA first :
         Bind(ScanLoop_continues(first.m, text, len, starts,
                                 ((lo + hi) \div 2) + 1, hi),
              LAMBDA second :
              IF first.rc /= WC_OK THEN [second EXCEPT !.rc = first.rc]
              ELSE second))

RECURSIVE ScanLoop(_, _, _, _, _, _)
\* the passes of the while (p < end) loop of wc_scan over the words that
\* start at starts[lo .. hi]: [rc, m], the first failing tab_insert ending
\* the loop; the range is halved so that the evaluation nests to the
\* logarithm of its length
ScanLoop(m, text, len, starts, lo, hi) ==
    IF lo > hi THEN [rc |-> WC_OK, m |-> m]
    ELSE IF lo = hi
    THEN Bind(ScanWord(text, len, starts[lo], m.w.maxw, m.w.seed), LAMBDA t :
         Bind(tab_insert(m, t.buf, Len(t.buf), t.h), LAMBDA r :
         [rc |-> IF r.rc < 0 THEN WC_NOMEM ELSE WC_OK, m |-> r.m]))
    ELSE Bind(ScanLoop(m, text, len, starts, lo, (lo + hi) \div 2),
              LAMBDA first :
              IF first.rc /= WC_OK THEN first
              ELSE ScanLoop(first.m, text, len, starts,
                            ((lo + hi) \div 2) + 1, hi))

\* wc_scan with if (!text) before if (len == 0)
wc_scan_null_first(m, text, text_null, len) ==
    IF text_null THEN [rc |-> WC_ERROR, m |-> m]
    ELSE IF len = 0 THEN [rc |-> WC_OK, m |-> m]
    ELSE Bind(WordStarts(text, len), LAMBDA starts :
              ScanLoop(m, text, len, starts, 1, Len(starts)))

\* wc_scan(w, text, len) on a non-null handle; text = NULL is text_null
wc_scan(m, text, text_null, len) ==
    IF len = 0 THEN [rc |-> WC_OK, m |-> m]
    ELSE IF text_null THEN [rc |-> WC_ERROR, m |-> m]
    ELSE Bind(WordStarts(text, len), LAMBDA starts :
              ScanLoop(m, text, len, starts, 1, Len(starts)))

(* ----- queries and enumeration ------------------------------------------ *)

wc_total(handle, w) == IF handle /= NULL THEN w.tot ELSE 0

wc_unique(handle, w) == IF handle /= NULL THEN w.len ELSE 0

\* strcmp with the bytes read as signed char
strcmp_signed(a, b) ==
    LET i == CHOOSE k \in 1..Len(a) :
                 /\ a[k] /= b[k] \/ a[k] = 0
                 /\ \A j \in 1..(k - 1) : a[j] = b[j] /\ a[j] /= 0
        signed(c) == IF c >= 128 THEN c - 256 ELSE c
    IN  signed(a[i]) - signed(b[i])

\* strcmp(a, b) of two NUL-terminated byte arrays: negative, 0 or positive,
\* decided at the first place where they differ or a ends; bytes are unsigned
strcmp(a, b) ==
    LET i == CHOOSE k \in 1..Len(a) :
                 /\ a[k] /= b[k] \/ a[k] = 0
                 /\ \A j \in 1..(k - 1) : a[j] = b[j] /\ a[j] /= 0
    IN  a[i] - b[i]

\* cmp_words without the strcmp of the keys: entries of one count compare
\* equal
cmp_words_count_only(mem, x, y) ==
    IF x.count /= y.count THEN (IF x.count > y.count THEN -1 ELSE 1)
    ELSE 0

\* cmp_words(x, y): count descending, then strcmp of the keys
cmp_words(mem, x, y) ==
    IF x.count /= y.count THEN (IF x.count > y.count THEN -1 ELSE 1)
    ELSE strcmp(mem[x.word], mem[y.word])

\* qsort(arr, n, sizeof *arr, cmp_words): the array ordered by cmp_words; an
\* entry goes to the place after the entries that compare below it and the
\* entries before it that compare equal
qsort(mem, arr) ==
    LET before == Tabulated([i \in 1..Len(arr) |->
            Cardinality({j \in 1..Len(arr) :
                LET c == cmp_words(mem, arr[j], arr[i])
                IN  c < 0 \/ (c = 0 /\ j < i)})])
    IN  Tabulated([k \in 1..Len(arr) |->
            arr[CHOOSE i \in 1..Len(arr) : before[i] = k - 1]])

\* the walk of wc_results with i < w->len for i < w->cap
results_walk_below_len(w) ==
    LET order == SlotOrder(OccupiedBelow(w.tab, w.len))
    IN  Tabulated([j \in 1..Len(order) |->
            [word |-> w.tab[order[j]].word, count |-> w.tab[order[j]].cnt]])

\* the array wc_results fills by its walk over the slots 0 .. cap-1
results_walk(w) ==
    LET order == SlotOrder(OccupiedBelow(w.tab, w.cap))
    IN  Tabulated([j \in 1..Len(order) |->
            [word |-> w.tab[order[j]].word, count |-> w.tab[order[j]].cnt]])

\* wc_results taking its array from the budgeted allocator of the counter
wc_results_budgeted(handle, w, mem, heap) ==
    LET empty == [out |-> NULL, arr |-> <<>>, n |-> 0] IN
    IF handle = NULL THEN [rc |-> WC_ERROR, heap |-> heap] @@ empty
    ELSE IF w.len = 0 THEN [rc |-> WC_OK, heap |-> heap] @@ empty
    ELSE IF mul_overflows(w.len, SizeofWord)
    THEN [rc |-> WC_NOMEM, heap |-> heap] @@ empty
    ELSE Bind(wc_xmalloc_state(w.alloc, heap, w.len * SizeofWord), LAMBDA a :
    IF a.p = NULL THEN [rc |-> WC_NOMEM, heap |-> a.heap] @@ empty
    ELSE [rc |-> WC_OK, heap |-> a.heap, out |-> a.p,
          arr |-> qsort(mem, results_walk(w)), n |-> w.len])

\* wc_results(w, out, n) with non-null out-parameters:
\* [rc, out, arr, n, heap]; arr is the content of the array at out
wc_results(handle, w, mem, heap) ==
    LET empty == [out |-> NULL, arr |-> <<>>, n |-> 0] IN
    IF handle = NULL THEN [rc |-> WC_ERROR, heap |-> heap] @@ empty
    ELSE IF w.len = 0 THEN [rc |-> WC_OK, heap |-> heap] @@ empty
    ELSE IF mul_overflows(w.len, SizeofWord)
    THEN [rc |-> WC_NOMEM, heap |-> heap] @@ empty
    ELSE Bind(Malloc(heap, w.len * SizeofWord), LAMBDA a :
    IF a.p = NULL THEN [rc |-> WC_NOMEM, heap |-> a.heap] @@ empty
    ELSE IF Cardinality(OccupiedBelow(w.tab, w.cap)) /= w.len
    THEN [rc |-> WC_ERROR, heap |-> Free(a.heap, a.p)] @@ empty
    ELSE [rc |-> WC_OK, heap |-> a.heap, out |-> a.p,
          arr |-> qsort(mem, results_walk(w)), n |-> w.len])

\* wc_results_free(r)
wc_results_free(heap, r) == Free(heap, r)

\* wc_cursor_init(c, w)
wc_cursor_init(handle) == [w |-> handle, index |-> 0]

\* wc_cursor_next with c->index left at the slot it returns
wc_cursor_next_stays(c, w) ==
    IF c.w = NULL THEN [ret |-> 0, word |-> NULL, count |-> 0, c |-> c]
    ELSE LET rest == {i \in OccupiedBelow(w.tab, w.cap) : i >= c.index} IN
         IF rest = {}
         THEN [ret |-> 0, word |-> NULL, count |-> 0, c |-> c]
         ELSE LET i == CHOOSE x \in rest : \A y \in rest : x <= y IN
              [ret |-> 1, word |-> w.tab[i].word, count |-> w.tab[i].cnt,
               c |-> [c EXCEPT !.index = i]]

\* wc_cursor_next(c, &word, &count): [ret, word, count, c]
wc_cursor_next(c, w) ==
    IF c.w = NULL THEN [ret |-> 0, word |-> NULL, count |-> 0, c |-> c]
    ELSE LET rest == {i \in OccupiedBelow(w.tab, w.cap) : i >= c.index} IN
         IF rest = {}
         THEN [ret |-> 0, word |-> NULL, count |-> 0,
               c |-> [c EXCEPT !.index = IF @ < w.cap THEN w.cap ELSE @]]
         ELSE LET i == CHOOSE x \in rest : \A y \in rest : x <= y IN
              [ret |-> 1, word |-> w.tab[i].word, count |-> w.tab[i].cnt,
               c |-> [c EXCEPT !.index = i + 1]]

(* ----- argument checks of the entry points --------------------------------- *)

\* wc_add with if (!w) alone: a NULL word is read as the empty string
wc_add_args_counter_only(handle, m, word, word_null) ==
    IF handle = NULL THEN [rc |-> WC_ERROR, m |-> m]
    ELSE wc_add(m, word)

\* wc_add(w, word) with w = handle and word = NULL where word_null:
\* if (!w || !word) return WC_ERROR;
wc_add_args(handle, m, word, word_null) ==
    IF handle = NULL \/ word_null THEN [rc |-> WC_ERROR, m |-> m]
    ELSE wc_add(m, word)

\* wc_scan(w, text, len) with w = handle: if (!w) return WC_ERROR;
wc_scan_args(handle, m, text, text_null, len) ==
    IF handle = NULL THEN [rc |-> WC_ERROR, m |-> m]
    ELSE wc_scan(m, text, text_null, len)

\* wc_results(w, out, n) with out = NULL where out_null and n = NULL where
\* n_null; r holds *out and *n as they are before the call
wc_results_args(handle, w, mem, heap, r, out_null, n_null) ==
    IF out_null \/ n_null THEN [rc |-> WC_ERROR, heap |-> heap] @@ r
    ELSE wc_results(handle, w, mem, heap)

(* ----- the command line: standard input in chunks --------------------------- *)

(* A ScanState st is the bytes st->buf[0 .. st->len - 1] of the carry      *)
(* buffer, a sequence of at most WC_MAX_WORD bytes.                        *)

\* isalpha_ascii(c): ((unsigned)c | 32u) - 'a' < 26
isalpha_ascii(c) == Or32(c) >= 97 /\ Or32(c) - 97 < 26

\* st->buf[st->len] = '\0'; rc = wc_add(w, st->buf): [rc, m]
flush_carry(m, st) == wc_add(m, st \o <<0>>)

RECURSIVE ChunkLoop_flushes_end(_, _, _, _, _)
\* the loop of scan_chunk_stream adding the word in the carry buffer when
\* the chunk ends, as it does at a separator
ChunkLoop_flushes_end(m, st, buf, i, len) ==
    IF i > len
    THEN IF Len(st) > 0
         THEN Bind(flush_carry(m, st), LAMBDA r :
                   [rc |-> r.rc, m |-> r.m,
                    st |-> IF r.rc /= WC_OK THEN st ELSE <<>>])
         ELSE [rc |-> WC_OK, m |-> m, st |-> st]
    ELSE IF isalpha_ascii(buf[i])
    THEN ChunkLoop_flushes_end(
             m, IF Len(st) < WC_MAX_WORD THEN Append(st, Or32(buf[i])) ELSE st,
             buf, i + 1, len)
    ELSE IF Len(st) > 0
    THEN Bind(flush_carry(m, st), LAMBDA r :
         IF r.rc /= WC_OK THEN [rc |-> r.rc, m |-> r.m, st |-> st]
         ELSE ChunkLoop_flushes_end(r.m, <<>>, buf, i + 1, len))
    ELSE ChunkLoop_flushes_end(m, st, buf, i + 1, len)

\* scan_chunk_stream that carries no partial word to the next chunk
scan_chunk_stream_flushes_end(m, st, buf, len) ==
    ChunkLoop_flushes_end(m, st, buf, 1, len)

RECURSIVE ChunkLoop(_, _, _, _, _)
\* the while (p < end) loop of scan_chunk_stream entered at buf[i] (counted
\* from 1): [rc, m, st]
ChunkLoop(m, st, buf, i, len) ==
    IF i > len THEN [rc |-> WC_OK, m |-> m, st |-> st]
    ELSE IF isalpha_ascii(buf[i])
    THEN ChunkLoop(
             m, IF Len(st) < WC_MAX_WORD THEN Append(st, Or32(buf[i])) ELSE st,
             buf, i + 1, len)
    ELSE IF Len(st) > 0
    THEN Bind(flush_carry(m, st), LAMBDA r :
         IF r.rc /= WC_OK THEN [rc |-> r.rc, m |-> r.m, st |-> st]
         ELSE ChunkLoop(r.m, <<>>, buf, i + 1, len))
    ELSE ChunkLoop(m, st, buf, i + 1, len)

\* scan_chunk_stream(w, st, buf, len): [rc, m, st]
scan_chunk_stream(m, st, buf, len) == ChunkLoop(m, st, buf, 1, len)

\* the end of process_stdin: the partial word left at EOF is added
process_stdin_eof(m, st) ==
    IF Len(st) > 0
    THEN Bind(flush_carry(m, st), LAMBDA r : [rc |-> r.rc, m |-> r.m, st |-> st])
    ELSE [rc |-> WC_OK, m |-> m, st |-> st]

(* ----- inputs of the calls ----------------------------------------------- *)

\* "Hello World"
TextHello ==
    <<72, 101, 108, 108, 111, 32, 87, 111, 114, 108, 100>>

\* "Hello HELLO hello HeLLo"
TextCase ==
    <<72, 101, 108, 108, 111, 32, 72, 69, 76, 76, 79, 32, 104, 101, 108,
     108, 111, 32, 72, 101, 76, 76, 111>>

\* "apple banana apple cherry apple banana"
TextFruit ==
    <<97, 112, 112, 108, 101, 32, 98, 97, 110, 97, 110, 97, 32, 97, 112,
     112, 108, 101, 32, 99, 104, 101, 114, 114, 121, 32, 97, 112, 112,
     108, 101, 32, 98, 97, 110, 97, 110, 97>>

\* "svhpy znycrycwqhztadbhsrdok": two words with one FNV-1a hash
TextCollide ==
    <<115, 118, 104, 112, 121, 32, 122, 110, 121, 99, 114, 121, 99, 119,
     113, 104, 122, 116, 97, 100, 98, 104, 115, 114, 100, 111, 107>>

\* "hello\\0world\\0test": embedded NUL bytes
TextBinary ==
    <<104, 101, 108, 108, 111, 0, 119, 111, 114, 108, 100, 0, 116, 101,
     115, 116>>

\* "internationalization internationally international"
TextTrunc ==
    <<105, 110, 116, 101, 114, 110, 97, 116, 105, 111, 110, 97, 108,
     105, 122, 97, 116, 105, 111, 110, 32, 105, 110, 116, 101, 114, 110,
     97, 116, 105, 111, 110, 97, 108, 108, 121, 32, 105, 110, 116, 101,
     114, 110, 97, 116, 105, 111, 110, 97, 108>>

\* "12 [@`{]" and the two bytes of a UTF-8 e-acute: no letter
TextNoLetters ==
    <<49, 50, 32, 91, 64, 96, 123, 93, 195, 169>>

\* "MXl" and "QFdzF2": two keys with one FNV-1a hash
KeyMXl ==
    <<77, 88, 108>>

\* "QFdzF2"
KeyQFdzF2 ==
    <<81, 70, 100, 122, 70, 50>>

\* "Hello"
KeyHello ==
    <<72, 101, 108, 108, 111>>

\* "hello"
Keyhello ==
    <<104, 101, 108, 108, 111>>

\* "abcdefghij"
KeyLong ==
    <<97, 98, 99, 100, 101, 102, 103, 104, 105, 106>>

\* "abcd"
KeyAbcd ==
    <<97, 98, 99, 100>>

\* the bytes 0xC8 0x61
KeyHigh ==
    <<200, 97>>

RECURSIVE Filler(_)
\* "aa ab ac ...": n distinct two-letter words
Filler(n) ==
    IF n = 0 THEN <<>>
    ELSE Filler(n - 1) \o (IF n = 1 THEN <<>> ELSE <<32>>)
         \o <<97 + ((n - 1) \div 26), 97 + ((n - 1) % 26)>>

RECURSIVE LongText(_)
\* n distinct words of LongLen equal letters, in capitals, one per line
LongText(n) ==
    IF n = 0 THEN <<>>
    ELSE LongText(n - 1) \o [j \in 1..LongLen |-> 64 + n] \o <<10>>

TextFiller == Filler(FillWords)

\* the number of keys at which a table of WC_MIN_INIT_CAP slots meets the
\* load-factor test
BrimLen ==
    CHOOSE n \in 1..WC_MIN_INIT_CAP :
        at_threshold(n, WC_MIN_INIT_CAP) /\ ~at_threshold(n - 1, WC_MIN_INIT_CAP)

\* BrimLen distinct two-letter words, then the first two of them once more
TextBrim == Filler(BrimLen) \o <<32>> \o Filler(2)

TextLong == LongText(LongWords)

\* the buffers passed to wc_scan in any state
Texts == {TextFruit, TextCollide, TextTrunc}

\* the buffers that fill a table or an arena block, passed to wc_scan while
\* the counter is empty
FillTexts == {TextBrim, TextFiller, TextLong}

ScanTexts(total) == IF total = 0 THEN Texts \cup FillTexts ELSE Texts

\* the strings passed to wc_add (their terminating NUL is added by CString)
AddKeys ==
    {<<>>, KeyMXl, KeyQFdzF2, KeyHello, Keyhello, KeyLong, KeyAbcd, KeyHigh}

CString(bytes) == bytes \o <<0>>

\* address of an aligned caller-supplied region
StaticBase == 512 * WC_ALIGN

NoLimits ==
    [nil |-> TRUE, max_bytes |-> 0, init_cap |-> 0, block_size |-> 0,
     static_buf |-> NULL, static_size |-> 0, hash_seed |-> <<0, 0, 0, 0>>]

ZeroLimits == [NoLimits EXCEPT !.nil = FALSE]

\* the (max_word, limits) pairs counters are constructed with
Configs ==
    { [max_word |-> 0, lim |-> NoLimits],
      [max_word |-> 1,
       lim |-> [ZeroLimits EXCEPT !.init_cap = 3, !.block_size = 1,
                                  !.hash_seed = <<1, 0, 51966, 47806>>]],
      [max_word |-> 0,
       lim |-> [ZeroLimits EXCEPT !.init_cap = 16, !.max_bytes = 2048]],
      [max_word |-> 0,
       lim |-> [ZeroLimits EXCEPT !.static_buf = StaticBase,
                                  !.static_size = 1024]] }

(* ----- the state machine ------------------------------------------------ *)

VARIABLES
    conf,     \* the (max_word, limits) wc_open_ex was called with
    handle,   \* the wc* the caller holds: NULL, or the address of the handle
    w,        \* the fields of struct wc
    mem,      \* key pointer -> the bytes stored in the arena at that address
    heap,     \* the heap behind WC_MALLOC / WC_FREE
    rc,       \* the status the last call returned
    res,      \* the out-parameters of the last wc_results: [out, arr, n]
    cursor,   \* the caller's wc_cursor: [w, index]
    yielded,  \* what wc_cursor_next returned since the last wc_cursor_init
    ops,      \* the number of add/scan calls made
    call,     \* the last add/scan call made: [op, arg, len, fail, rc]
    twin,     \* a second counter of the same configuration, or NoTwin
    prev      \* the counter and the last call before the call made last, or
              \* NoPrev

vars ==
    <<conf, handle, w, mem, heap, rc, res, cursor, yielded, ops, call, twin,
      prev>>

NoResults == [out |-> NULL, arr |-> <<>>, n |-> 0]

NoCursor == [w |-> NULL, index |-> 0]

NoCall == [op |-> "none", arg |-> <<>>, len |-> 0, fail |-> 0, rc |-> WC_OK]

\* no second counter was constructed
NoTwin == [handle |-> NULL]

\* the state before the last call is not kept
NoPrev == [ops |-> 0]

\* wc_add(w, key) with malloc number fail failing returned r
AddOf(key, fail, r) ==
    [op |-> "add", arg |-> key, len |-> Len(key), fail |-> fail, rc |-> r]

\* wc_scan(w, text, len) with malloc number fail failing returned r
ScanOf(text, len, fail, r) ==
    [op |-> "scan", arg |-> text, len |-> len, fail |-> fail, rc |-> r]

\* the state after wc_open_ex(c.max_word, c.lim) returned r = [handle, m]
Constructed(c, r) ==
    /\ conf = c
    /\ handle = r.handle
    /\ w = r.m.w
    /\ mem = r.m.mem
    /\ heap = oom_reset(r.m.heap)
    /\ rc = WC_OK
    /\ res = NoResults
    /\ cursor = NoCursor
    /\ yielded = <<>>
    /\ ops = 0
    /\ call = NoCall
    /\ twin = NoTwin
    /\ prev = NoPrev

\* wc_open_ex(c.max_word, c.lim) with malloc number fail failing
Open_ex(c, fail) ==
    Constructed(c, wc_open_ex(oom_arm(EmptyHeap, fail), c.max_word, c.lim))

\* construction makes at most three calls of malloc
Init == \E c \in Configs, fail \in 0..3 : Open_ex(c, fail)

\* the machine state a call starts from, with malloc number fail made to fail
Machine(fail) == [w |-> w, mem |-> mem, heap |-> oom_arm(heap, fail)]

\* the call returned r = [rc, m]
Returned(r) ==
    /\ w' = r.m.w
    /\ mem' = r.m.mem
    /\ heap' = oom_reset(r.m.heap)
    /\ rc' = r.rc

\* a mutating call is made while no snapshot array is outstanding and no
\* cursor is bound
CanMutate(bound) ==
    /\ handle /= NULL
    /\ ops < bound
    /\ res.out = NULL
    /\ cursor.w = NULL

\* the add/scan call made with malloc number fail failing returned
\* r = [rc, m]; the call made r.m.heap.count calls of malloc, and a failure
\* is injected only into a call of malloc that is made
Mutated(r, fail) ==
    /\ fail <= r.m.heap.count
    /\ Returned(r)
    /\ ops' = ops + 1
    /\ UNCHANGED <<conf, handle, res, cursor, yielded>>

\* rc = wc_add(w, key), with malloc number fail of the call failing
AddCall(key, fail) == Mutated(wc_add(Machine(fail), CString(key)), fail)

\* rc = wc_scan(w, text, len), with malloc number fail of the call failing
ScanCall(text, len, fail) ==
    Mutated(wc_scan(Machine(fail), text, FALSE, len), fail)

Add(key, fail) ==
    /\ CanMutate(MaxOps)
    /\ AddCall(key, fail)
    /\ call' = AddOf(key, fail, rc')
    /\ UNCHANGED <<twin, prev>>

Scan(text, fail) ==
    /\ CanMutate(MaxOps)
    /\ ScanCall(text, Len(text), fail)
    /\ call' = ScanOf(text, Len(text), fail, rc') /\ UNCHANGED <<twin, prev>>

\* wc_results returned r = [rc, out, arr, n, heap]
ResultsReturned(r) ==
    /\ rc' = r.rc
    /\ res' = [out |-> r.out, arr |-> r.arr, n |-> r.n]
    /\ heap' = oom_reset(r.heap)

\* rc = wc_results(w, &out, &n)
Results(fail) ==
    /\ handle /= NULL
    /\ res.out = NULL
    /\ ResultsReturned(wc_results(handle, w, mem, oom_arm(heap, fail)))
    /\ UNCHANGED <<conf, handle, w, mem, cursor, yielded, ops, call,
                   twin, prev>>

\* wc_results_free(out)
ResultsFree ==
    /\ res.out /= NULL
    /\ heap' = wc_results_free(heap, res.out)
    /\ res' = NoResults
    /\ UNCHANGED <<conf, handle, w, mem, rc, cursor, yielded, ops, call,
                   twin, prev>>

\* wc_close left the machine state m
Closed(m) ==
    /\ w' = m.w
    /\ mem' = m.mem
    /\ heap' = m.heap

\* wc_close(w)
Close ==
    /\ handle /= NULL
    /\ res.out = NULL
    /\ Closed(wc_close([w |-> w, mem |-> mem, heap |-> heap], handle))
    /\ handle' = NULL
    /\ cursor' = NoCursor
    /\ yielded' = <<>>
    /\ UNCHANGED <<conf, rc, res, ops, call,
                   twin, prev>>

\* which malloc of a call is made to fail (0: none)
MaxFail == 1

AddAny == \E key \in AddKeys, fail \in 0..MaxFail : Add(key, fail)

ScanAny == \E text \in ScanTexts(w.tot), fail \in 0..MaxFail : Scan(text, fail)

ResultsAny == \E fail \in 0..1 : Results(fail)

Next == AddAny \/ ScanAny \/ ResultsAny \/ ResultsFree \/ Close

Spec == Init /\ [][Next]_vars

(* ----- construction over a range of limits ------------------------------- *)

\* number of scan calls made on a counter constructed from TuneConfigs
MaxTuneOps == 1

\* limits.init_cap: 0 for the default, values below WC_MIN_INIT_CAP, powers
\* of two and their neighbours, values no allocation can serve
InitCaps ==
    {0, 1, 3, 15, 16, 17, 24, 31, 32, 33, 48, 100, 1000, 4097, 100000, SIZE_MAX}

\* limits.max_bytes: 0 for no budget, budgets too small for any table, and
\* budgets that clamp the table
Budgets == {0, 1, 700, 1024, 2048, 3000, 5000, 100000}

\* limits.static_size: 0 for no caller-supplied region
StaticSizes == {0, 1024, 3000, 8192}

TuneConfigs ==
    { [max_word |-> 0,
       lim |-> [ZeroLimits EXCEPT
                   !.init_cap = ic, !.max_bytes = mb, !.static_size = ss,
                   !.static_buf = IF ss = 0 THEN NULL ELSE StaticBase]] :
      ic \in InitCaps, mb \in Budgets, ss \in StaticSizes }

\* enough distinct words to grow a table of WC_MIN_INIT_CAP slots twice
TextGrow == Filler(3 * FillWords)

TuneTexts == {TextFruit, TextGrow}

InitTune == \E c \in TuneConfigs : Open_ex(c, 0)

TuneScan(text) ==
    /\ CanMutate(MaxTuneOps)
    /\ ScanCall(text, Len(text), 0)
    /\ call' = ScanOf(text, Len(text), 0, rc') /\ UNCHANGED <<twin, prev>>

(* ----- cursors ------------------------------------------------------------ *)

\* number of add/scan calls made before a cursor is bound
MaxCursorOps == 1

\* number of wc_cursor_next calls made after the first that returned 0
MaxCursorEnd == 2

CursorAdd(key, fail) ==
    /\ CanMutate(MaxCursorOps)
    /\ AddCall(key, fail)
    /\ call' = AddOf(key, fail, rc') /\ UNCHANGED <<twin, prev>>

CursorScan(text, fail) ==
    /\ CanMutate(MaxCursorOps)
    /\ ScanCall(text, Len(text), fail)
    /\ call' = ScanOf(text, Len(text), fail, rc') /\ UNCHANGED <<twin, prev>>

\* wc_cursor_init(&c, w)
CursorInit ==
    /\ handle /= NULL
    /\ cursor.w = NULL
    /\ cursor' = wc_cursor_init(handle)
    /\ yielded' = <<>>
    /\ UNCHANGED <<conf, handle, w, mem, heap, rc, res, ops, call,
                   twin, prev>>

\* wc_cursor_next returned r = [ret, word, count, c]
CursorReturned(r) ==
    /\ cursor' = r.c
    /\ yielded' = Append(yielded, [ret |-> r.ret, word |-> r.word,
                                    count |-> r.count])

\* ret = wc_cursor_next(&c, &word, &count)
CursorNext ==
    /\ cursor.w /= NULL
    /\ Cardinality({i \in 1..Len(yielded) : yielded[i].ret = 0}) <= MaxCursorEnd
    /\ CursorReturned(wc_cursor_next(cursor, w))
    /\ UNCHANGED <<conf, handle, w, mem, heap, rc, res, ops, call,
                   twin, prev>>

NextCursor ==
    \/ \E key \in AddKeys, fail \in 0..MaxFail : CursorAdd(key, fail)
    \/ \E text \in Texts \cup FillTexts, fail \in 0..MaxFail :
           CursorScan(text, fail)
    \/ CursorInit
    \/ CursorNext

SpecCursor == Init /\ [][NextCursor]_vars

(* ----- scans of a fresh counter ------------------------------------------- *)

\* NUL, a digit, a capital, a small letter and a byte >= 0x80
ScanAlphabet == {0, 49, 65, 98, 200}

\* the byte strings of length up to n over ScanAlphabet
ByteStrings(n) == UNION {[1..k -> ScanAlphabet] : k \in 0..n}

\* the buffers scanned into a fresh counter: every single byte, the short
\* strings, and the texts of the test suite
ScanInputs ==
    {<<b>> : b \in 0..255} \cup ByteStrings(MaxBytes)
    \cup {TextHello, TextCase, TextBinary, TextNoLetters, TextTrunc, TextFruit,
          TextCollide, KeyAbcd, KeyLong}

\* the lengths passed with a buffer: all of it, all but its last byte, half
ScanLens(text) ==
    {n \in 0..Len(text) :
        n = Len(text) \/ n = Len(text) - 1 \/ n = Len(text) \div 2}

InitScan == \E c \in Configs : Open_ex(c, 0)

\* rc = wc_scan(w, text, len) as the first call on the counter
FreshScan(text, len) ==
    /\ CanMutate(1)
    /\ ScanCall(text, len, 0)
    /\ call' = ScanOf(text, len, 0, rc') /\ UNCHANGED <<twin, prev>>

NextScan ==
    \E text \in ScanInputs : \E len \in ScanLens(text) : FreshScan(text, len)

SpecScan == InitScan /\ [][NextScan]_vars

NextTune == \E text \in TuneTexts : TuneScan(text)

SpecTune == InitTune /\ [][NextTune]_vars

(* ----- two counters of one configuration ---------------------------------- *)

\* number of wc_add calls made on each of the two counters
MaxPermOps == 2

\* length of the keys of which a static arena block holds only one
BigLen == 7 * LongLen

\* BigLen bytes c
BigKey(c) == [j \in 1..BigLen |-> c]

\* the strings added to the two counters: two with one hash, a short one, and
\* two of BigLen bytes
PermKeys == {KeyMXl, KeyQFdzF2, KeyAbcd, BigKey(65), BigKey(66)}

\* a static region whose arena block is too small for two keys of BigLen
\* bytes
PermStatic ==
    [max_word |-> 8 * LongLen,
     lim |-> [ZeroLimits EXCEPT !.static_buf = StaticBase,
                                !.static_size = 1024]]

PermConfigs == Configs \cup {PermStatic}

InitPerm == \E c \in PermConfigs : Open_ex(c, 0)

\* wc_open_ex(conf.max_word, conf.lim) returned r = [handle, m] for the
\* second counter; pending[k] is the number of times k was added to the
\* first counter and not yet to the second, ok is whether every wc_add on
\* either counter returned WC_OK
TwinConstructed(r) ==
    twin' = [handle |-> r.handle, m |-> [r.m EXCEPT !.heap = oom_reset(@)],
             pending |-> [k \in PermKeys |-> 0], ok |-> TRUE]

\* the second counter is constructed from the configuration of the first
TwinOpen ==
    /\ handle /= NULL
    /\ ops = 0
    /\ twin = NoTwin
    /\ TwinConstructed(wc_open_ex(EmptyHeap, conf.max_word, conf.lim))
    /\ twin'.handle /= NULL
    /\ UNCHANGED <<conf, handle, w, mem, heap, rc, res, cursor, yielded, ops,
                   call, prev>>

\* rc = wc_add(w, key) on the first counter
PermAdd(key) ==
    /\ twin /= NoTwin
    /\ CanMutate(MaxPermOps)
    /\ AddCall(key, 0)
    /\ call' = AddOf(key, 0, rc')
    /\ twin' = [twin EXCEPT !.pending[key] = @ + 1,
                            !.ok = @ /\ rc' = WC_OK]
    /\ UNCHANGED prev

\* wc_add on the second counter returned r = [rc, m]
TwinReturned(key, r) ==
    twin' = [twin EXCEPT !.m = [r.m EXCEPT !.heap = oom_reset(@)],
                         !.pending[key] = @ - 1,
                         !.ok = @ /\ r.rc = WC_OK]

\* rc = wc_add(w2, key) on the second counter, for a key the first counter
\* was given and the second was not
TwinAdd(key) ==
    /\ twin /= NoTwin
    /\ twin.pending[key] > 0
    /\ TwinReturned(key, wc_add(twin.m, CString(key)))
    /\ UNCHANGED <<conf, handle, w, mem, heap, rc, res, cursor, yielded, ops,
                   call, prev>>

NextPerm ==
    \/ TwinOpen
    \/ \E key \in PermKeys : PermAdd(key)
    \/ \E key \in PermKeys : TwinAdd(key)

SpecPerm == InitPerm /\ [][NextPerm]_vars

(* ----- calls that run out of memory --------------------------------------- *)

\* number of add/scan calls made on a counter constructed from OomConfigs
MaxOomOps == 2

\* which malloc of a call is made to fail: tab_grow's, then block_new's
MaxOomFail == 2

\* a table of WC_MIN_INIT_CAP slots and arena blocks of WC_MIN_BLOCK_SZ bytes,
\* with no budget
OomSmall ==
    [max_word |-> 0,
     lim |-> [ZeroLimits EXCEPT !.init_cap = WC_MIN_INIT_CAP,
                                !.block_size = WC_MIN_BLOCK_SZ]]

\* a static region that has room left for a second arena block once the
\* slot array and the first block are carved out of it
OomRoomy ==
    [max_word |-> 0,
     lim |-> [ZeroLimits EXCEPT !.static_buf = StaticBase,
                                !.static_size = 8192]]

\* a budget no slot array fits in, and a budget larger than the static region
\* it comes with
OomBudgets ==
    {[max_word |-> 0, lim |-> [ZeroLimits EXCEPT !.max_bytes = 1]],
     [max_word |-> 0,
      lim |-> [ZeroLimits EXCEPT !.max_bytes = 100000,
                                 !.static_buf = StaticBase,
                                 !.static_size = 1024]]}

OomConfigs == Configs \cup {OomSmall, OomRoomy} \cup OomBudgets

\* length of the words of which four, with their NULs, fill an arena block
QuarterLen == (WC_MIN_BLOCK_SZ \div 4) - 1

RECURSIVE FullText(_)
\* n distinct words of QuarterLen equal letters, one per line
FullText(n) ==
    IF n = 0 THEN <<>>
    ELSE FullText(n - 1) \o [j \in 1..QuarterLen |-> 96 + n] \o <<10>>

\* BrimLen words that bring a table of WC_MIN_INIT_CAP slots to the load
\* threshold and fill three arena blocks to their last byte
TextFull == FullText(BrimLen)

\* more words of QuarterLen letters than the block of OomRoomy holds
TextOver == FullText(2 * BrimLen)

OomTexts(total) ==
    IF total = 0
    THEN {TextFull, TextOver, Filler(BrimLen), TextBrim, TextFiller, TextFruit}
    ELSE {TextFruit, TextCollide, TextCase}

OomKeys == {KeyMXl, KeyHello, KeyLong}

InitOom == \E c \in OomConfigs : Open_ex(c, 0)

\* the counter and the last call as they are when a call is made
Before == [ops |-> ops + 1, w |-> w, mem |-> mem, heap |-> heap, call |-> call]

OomAdd(key, fail) ==
    /\ CanMutate(MaxOomOps)
    /\ AddCall(key, fail)
    /\ call' = AddOf(key, fail, rc')
    /\ prev' = Before
    /\ UNCHANGED twin

OomScan(text, fail) ==
    /\ CanMutate(MaxOomOps)
    /\ ScanCall(text, Len(text), fail)
    /\ call' = ScanOf(text, Len(text), fail, rc')
    /\ prev' = Before
    /\ UNCHANGED twin

NextOom ==
    \/ \E key \in OomKeys, fail \in 0..MaxOomFail : OomAdd(key, fail)
    \/ \E text \in OomTexts(w.tot), fail \in 0..MaxOomFail :
           OomScan(text, fail)

SpecOom == InitOom /\ [][NextOom]_vars

(* ----- construction over static regions of every size --------------------- *)

\* the largest static_size wc_open_ex is called with
StaticSweep == 4096

\* wc_open_ex(0, &lim) with lim.static_buf aligned, lim.static_size = size and
\* every other field zero
InitSweep ==
    \E size \in 1..StaticSweep :
        Open_ex([max_word |-> 0,
                 lim |-> [ZeroLimits EXCEPT !.static_buf = StaticBase,
                                            !.static_size = size]], 0)

\* rc = wc_add(w, key) as the first call on the counter
SweepAdd(key) ==
    /\ CanMutate(1)
    /\ AddCall(key, 0)
    /\ call' = AddOf(key, 0, rc')
    /\ UNCHANGED <<twin, prev>>

NextSweep == \E key \in {KeyHello} : SweepAdd(key)

SpecSweep == InitSweep /\ [][NextSweep]_vars

(* ----- construction over a range of max_word -------------------------------- *)

\* the max_word wc_open is called with: 0 for the default, values around
\* MIN_WORD, DEF_WORD and WC_MAX_WORD, and the value of the test suite
ClampRequests ==
    (0..(2 * MIN_WORD)) \cup ((DEF_WORD - 1)..(DEF_WORD + 1))
    \cup ((WC_MAX_WORD - 1)..(WC_MAX_WORD + 1)) \cup {WC_MAX_WORD + 1000}

\* n letters 'a'
Letters(n) == [j \in 1..n |-> 97]

\* the words given to the counter: of lengths around MIN_WORD, DEF_WORD and
\* WC_MAX_WORD
ClampWords ==
    {Letters(n) : n \in {MIN_WORD - 1, MIN_WORD, MIN_WORD + 1, DEF_WORD,
                         DEF_WORD + 1, WC_MAX_WORD, WC_MAX_WORD + 8}}

\* wc_open(max_word)
InitClamp ==
    \E max_word \in ClampRequests :
        Open_ex([max_word |-> max_word, lim |-> NoLimits], 0)

\* rc = wc_add(w, word) as the first call on the counter
ClampAdd(word) ==
    /\ CanMutate(1)
    /\ AddCall(word, 0)
    /\ call' = AddOf(word, 0, rc')
    /\ UNCHANGED <<twin, prev>>

\* rc = wc_scan(w, word, len) as the first call on the counter
ClampScan(word) ==
    /\ CanMutate(1)
    /\ ScanCall(word, Len(word), 0)
    /\ call' = ScanOf(word, Len(word), 0, rc')
    /\ UNCHANGED <<twin, prev>>

NextClamp ==
    \/ \E word \in ClampWords : ClampAdd(word)
    \/ \E word \in ClampWords : ClampScan(word)

SpecClamp == InitClamp /\ [][NextClamp]_vars

(* ----- calls with any arguments --------------------------------------------- *)

\* number of add/scan calls made on a counter constructed from ApiConfigs
MaxApiOps == 2

\* number of wc_cursor_next calls made on a cursor
MaxApiNext == 2

\* a budget that the slot array and the first arena block leave too small for
\* a snapshot array of one entry
ApiBudget ==
    [max_word |-> 0,
     lim |-> [ZeroLimits EXCEPT
                 !.init_cap = WC_MIN_INIT_CAP,
                 !.max_bytes = (WC_MIN_INIT_CAP * SizeofSlot) + SizeofBlock
                               + WC_MIN_BLOCK_SZ + (SizeofWord \div 2)]]

\* a counter whose table grows, a counter in a static region, and a counter
\* with a budget
ApiConfigs == {OomSmall, OomRoomy, ApiBudget}

\* wc_open_ex returns a counter, or NULL where its first allocation fails
InitApi ==
    \/ \E c \in ApiConfigs : Open_ex(c, 0)
    \/ Open_ex(OomSmall, 1)

\* one word more than an arena block of WC_MIN_BLOCK_SZ bytes holds, then
\* short words, one more in all than a table of WC_MIN_INIT_CAP slots takes
\* without growing
TextChain ==
    FullText((WC_MIN_BLOCK_SZ \div (QuarterLen + 1)) + 1)
    \o Filler(BrimLen - (WC_MIN_BLOCK_SZ \div (QuarterLen + 1)))

\* the arguments of wc_add: a string, or NULL
ApiKeys ==
    {[key |-> k, null |-> FALSE] : k \in {<<>>, KeyHello}}
    \cup {[key |-> <<>>, null |-> TRUE]}

\* the arguments of wc_scan: a buffer and its length or 0, a buffer with the
\* words for which a table grows and an arena chains blocks, or NULL and a
\* length
ApiTexts ==
    {[text |-> t, null |-> FALSE, len |-> Len(t)] :
         t \in {TextNoLetters, TextFruit, TextChain}}
    \cup {[text |-> TextFruit, null |-> FALSE, len |-> 0]}
    \cup {[text |-> <<>>, null |-> TRUE, len |-> n] : n \in 0..1}

\* an add/scan call is made, on a counter or on NULL
ApiCalled(r) ==
    /\ ops < MaxApiOps
    /\ Returned(r)
    /\ ops' = ops + 1
    /\ prev' = Before
    /\ UNCHANGED <<conf, handle, res, cursor, yielded, twin>>

\* rc = wc_add(w, key); key is NULL where null
ApiAdd(key, null) ==
    /\ ApiCalled(wc_add_args(handle, Machine(0), CString(key), null))
    /\ call' = [AddOf(key, 0, rc') EXCEPT
                   !.op = IF null THEN "add_null" ELSE "add"]

\* rc = wc_scan(w, text, len); text is NULL where null
ApiScan(text, null, len) ==
    /\ ApiCalled(wc_scan_args(handle, Machine(0), text, null, len))
    /\ call' = [ScanOf(text, len, 0, rc') EXCEPT
                   !.op = IF null THEN "scan_null" ELSE "scan"]

\* rc = wc_results(w, out, n); out is NULL where out_null, n where n_null
ApiResults(out_null, n_null) ==
    /\ res.out = NULL
    /\ cursor = NoCursor
    /\ ResultsReturned(wc_results_args(handle, w, mem, heap, res,
                                       out_null, n_null))
    /\ UNCHANGED <<conf, handle, w, mem, cursor, yielded, ops, call,
                   twin, prev>>

\* wc_cursor_init(&c, w), on a counter or on NULL
ApiCursorInit ==
    /\ res.out = NULL
    /\ cursor = NoCursor
    /\ cursor' = wc_cursor_init(handle)
    /\ yielded' = <<>>
    /\ UNCHANGED <<conf, handle, w, mem, heap, rc, res, ops, call,
                   twin, prev>>

\* ret = wc_cursor_next(&c, &word, &count), until it returns 0
ApiCursorNext ==
    /\ Len(yielded) < MaxApiNext
    /\ \A i \in 1..Len(yielded) : yielded[i].ret = 1
    /\ CursorReturned(wc_cursor_next(cursor, w))
    /\ UNCHANGED <<conf, handle, w, mem, heap, rc, res, ops, call,
                   twin, prev>>

NextApi ==
    \/ \E a \in ApiKeys : ApiAdd(a.key, a.null)
    \/ \E a \in ApiTexts : ApiScan(a.text, a.null, a.len)
    \/ \E out_null, n_null \in BOOLEAN : ApiResults(out_null, n_null)
    \/ ResultsFree
    \/ ApiCursorInit
    \/ ApiCursorNext

SpecApi == InitApi /\ [][NextApi]_vars

(* ----- construction, calls and close of counters on the heap -------------- *)

\* the configurations without a caller-supplied region
CloseConfigs == {c \in OomConfigs : ~open_alloc(c.lim).static_mode}

\* construction with each of its calls of malloc made to fail in turn, as
\* test_oom_torture makes them
InitClose == \E c \in CloseConfigs, fail \in 0..3 : Open_ex(c, fail)

NextClose == NextOom \/ Close

SpecClose == InitClose /\ [][NextClose]_vars

(* ----- two counters that differ in the hash seed -------------------------- *)

\* add and scan calls made to each counter
MaxSeedOps == 2

\* hash_seed as four 16-bit words, high to low: 0x00010000CAFEBABE and 1
SeedBabe == <<1, 0, 51966, 47806>>

SeedOne == <<0, 0, 0, 1>>

\* the hash_seed of the first counter and of the second
SeedPairs == {<<<<0, 0, 0, 0>>, SeedBabe>>, <<SeedBabe, SeedOne>>}

\* the configurations the seeds are set in: a table of WC_MIN_INIT_CAP slots
\* on the heap, the same in a static region, and words of MIN_WORD bytes
SeedBases ==
    {OomSmall,
     [max_word |-> 0,
      lim |-> [ZeroLimits EXCEPT !.static_buf = StaticBase,
                                 !.static_size = 1024]],
     [max_word |-> 1,
      lim |-> [ZeroLimits EXCEPT !.init_cap = WC_MIN_INIT_CAP]]}

SeedKeys == {Keyhello, KeyMXl}

SeedTexts == {TextCase, TextCollide, TextFiller}

InitSeed ==
    \E c \in SeedBases, s \in SeedPairs :
        Open_ex([c EXCEPT !.lim.hash_seed = s[1]], 0)

\* the second counter: wc_open_ex with the configuration of the first and
\* the hash_seed seed
SeedTwinOpen(seed) ==
    /\ handle /= NULL
    /\ ops = 0
    /\ twin = NoTwin
    /\ <<conf.lim.hash_seed, seed>> \in SeedPairs
    /\ twin' = Bind(wc_open_ex(EmptyHeap, conf.max_word,
                               [conf.lim EXCEPT !.hash_seed = seed]),
                    LAMBDA r :
                    [handle |-> r.handle,
                     m |-> [r.m EXCEPT !.heap = oom_reset(@)],
                     lim |-> [conf.lim EXCEPT !.hash_seed = seed],
                     rc |-> WC_OK])
    /\ twin'.handle /= NULL
    /\ UNCHANGED <<conf, handle, w, mem, heap, rc, res, cursor, yielded, ops,
                   call, prev>>

\* the call made to the second counter, with malloc number fail failing,
\* returned r = [rc, m]
SeedTwinReturned(r) ==
    twin' = [twin EXCEPT !.m = [r.m EXCEPT !.heap = oom_reset(@)],
                         !.rc = r.rc]

\* the machine state of the second counter, with malloc number fail failing
TwinMachine(fail) == [twin.m EXCEPT !.heap = oom_arm(@, fail)]

\* wc_add(w, key) and wc_add(w2, key), with malloc number fail of each failing
SeedAdd(key, fail) ==
    /\ twin /= NoTwin
    /\ CanMutate(MaxSeedOps)
    /\ AddCall(key, fail)
    /\ call' = AddOf(key, fail, rc')
    /\ SeedTwinReturned(wc_add(TwinMachine(fail), CString(key)))
    /\ prev' = Before

\* wc_scan(w, text, len) and wc_scan(w2, text, len), with malloc number fail
\* of each failing
SeedScan(text, fail) ==
    /\ twin /= NoTwin
    /\ CanMutate(MaxSeedOps)
    /\ ScanCall(text, Len(text), fail)
    /\ call' = ScanOf(text, Len(text), fail, rc')
    /\ SeedTwinReturned(wc_scan(TwinMachine(fail), text, FALSE, Len(text)))
    /\ prev' = Before

NextSeed ==
    \/ \E seed \in {SeedBabe, SeedOne} : SeedTwinOpen(seed)
    \/ \E key \in SeedKeys, fail \in 0..1 : SeedAdd(key, fail)
    \/ \E text \in SeedTexts, fail \in 0..1 : SeedScan(text, fail)

SpecSeed == InitSeed /\ [][NextSeed]_vars

(* ----- the first insertion into a counter ----------------------------------- *)

\* max_word: the default, the largest, and one beyond it; block_size: the
\* default and the smallest; max_bytes: none, one that clamps the table and
\* the block, and a large one; static_size: none, and regions of three sizes
FirstConfigs ==
    { [max_word |-> mw,
       lim |-> [ZeroLimits EXCEPT
                   !.block_size = bs, !.max_bytes = mb, !.static_size = ss,
                   !.static_buf = IF ss = 0 THEN NULL ELSE StaticBase]] :
      mw \in {0, WC_MAX_WORD, WC_MAX_WORD + 1000}, bs \in {0, 1},
      mb \in {0, 2048, 100000}, ss \in {0, 1024, 3000, 8192} }

\* a short word, and words of WC_MAX_WORD letters and more
FirstWords == {KeyHello, Letters(WC_MAX_WORD), Letters(WC_MAX_WORD + 8)}

InitFirst == \E c \in FirstConfigs : Open_ex(c, 0)

\* rc = wc_add(w, word) as the first call on the counter
FirstAdd(word, fail) ==
    /\ CanMutate(1)
    /\ AddCall(word, fail)
    /\ call' = AddOf(word, fail, rc')
    /\ prev' = Before
    /\ UNCHANGED twin

\* rc = wc_scan(w, word, len) as the first call on the counter
FirstScan(word, fail) ==
    /\ CanMutate(1)
    /\ ScanCall(word, Len(word), fail)
    /\ call' = ScanOf(word, Len(word), fail, rc')
    /\ prev' = Before
    /\ UNCHANGED twin

NextFirst ==
    \/ \E word \in FirstWords, fail \in 0..1 : FirstAdd(word, fail)
    \/ \E word \in FirstWords, fail \in 0..1 : FirstScan(word, fail)

SpecFirst == InitFirst /\ [][NextFirst]_vars

(* ----- a byte stream fed in chunks ------------------------------------------ *)

\* the largest chunk a stream is cut into
MaxChunk == 3

\* "Ab" NUL "cD9e" 0xC8 "f": letters of both cases between a NUL, a digit and
\* a byte >= 0x80, ending in a letter
StreamMixed == <<65, 98, 0, 99, 68, 57, 101, 200, 102>>

\* a run of more letters than the carry buffer holds, a separator and a
\* word that ends the stream
StreamLongRun == Letters(WC_MAX_WORD + 6) \o <<32, 97, 98, 99>>

\* more words than a table of WC_MIN_INIT_CAP slots takes in a static
\* region, and a word after them
StreamOverfull == TextFiller \o <<10, 122>>

Streams == {StreamMixed, StreamLongRun, TextCase, StreamOverfull}

\* the default, words of MIN_WORD bytes, words of WC_MAX_WORD bytes, and a
\* static region whose table holds fewer words than StreamOverfull has
StreamConfigs ==
    {[max_word |-> 0, lim |-> NoLimits],
     [max_word |-> 1, lim |-> NoLimits],
     [max_word |-> WC_MAX_WORD, lim |-> NoLimits],
     [max_word |-> 0,
      lim |-> [ZeroLimits EXCEPT !.static_buf = StaticBase,
                                 !.static_size = 1024]]}

InitStream == \E c \in StreamConfigs : Open_ex(c, 0)

\* standard input is the byte stream s; twin keeps the stream, the offset
\* read so far, the ScanState, the counter as it was constructed, the status
\* of the last step and whether process_stdin has returned
StreamBegin(s) ==
    /\ handle /= NULL
    /\ twin = NoTwin
    /\ twin' = [handle |-> handle, stream |-> s, pos |-> 0, st |-> <<>>,
                m |-> [w |-> w, mem |-> mem, heap |-> heap],
                rc |-> WC_OK, done |-> FALSE]
    /\ UNCHANGED <<conf, handle, w, mem, heap, rc, res, cursor, yielded, ops,
                   call, prev>>

\* a step of process_stdin returned r = [rc, m, st] after n more bytes; it
\* returns when the step fails or was the last
StreamStepped(r, n, last) ==
    /\ Returned(r)
    /\ twin' = [twin EXCEPT !.st = r.st, !.pos = @ + n, !.rc = r.rc,
                            !.done = last \/ r.rc /= WC_OK]
    /\ UNCHANGED <<conf, handle, res, cursor, yielded, ops, call, prev>>

\* n = fread(...); rc = scan_chunk_stream(w, &st, buf, n) for the next n
\* bytes of the stream
StreamChunk(n) ==
    /\ twin /= NoTwin
    /\ ~twin.done
    /\ twin.pos + n <= Len(twin.stream)
    /\ StreamStepped(
           scan_chunk_stream(Machine(0), twin.st,
                             SubSeq(twin.stream, twin.pos + 1, twin.pos + n),
                             n),
           n, FALSE)

\* the stream is at its end: the partial word is flushed
StreamEof ==
    /\ twin /= NoTwin
    /\ ~twin.done
    /\ twin.pos = Len(twin.stream)
    /\ StreamStepped(process_stdin_eof(Machine(0), twin.st), 0, TRUE)

NextStream ==
    \/ \E s \in Streams : StreamBegin(s)
    \/ \E n \in 1..MaxChunk : StreamChunk(n)
    \/ StreamEof

SpecStream == InitStream /\ [][NextStream]_vars

(* ----- properties: the counters ------------------------------------------ *)

Open == handle /= NULL

\* sum of s.cnt over the slots with index in S: the number of pairs <<i, j>>
\* with i in S and 1 <= j <= tab[i].cnt
SumCnt(tab, S) ==
    Cardinality(UNION {{<<i, j>> : j \in 1..tab[i].cnt} : i \in S})

\* C1: in every state reached by add and scan calls, successful or failing,
\* with or without growth, total is the sum of the occurrence counts of the
\* occupied slots.
C1_TotalIsSumOfCounts ==
    Open => w.tot = SumCnt(w.tab, OccupiedBelow(w.tab, w.cap))

\* a call failed for lack of memory on a table that had grown and holds counts
C1_Witness ==
    /\ Open
    /\ w.cap = 2 * WC_MIN_INIT_CAP
    /\ rc = WC_NOMEM
    /\ w.tot > FillWords

\* C2: in every state reached by add and scan calls, successful or failing,
\* with or without growth, unique is the number of occupied slots of the slot
\* array, all of which lie below capacity.
C2_UniqueIsOccupiedSlots ==
    Open => /\ w.len = Cardinality(OccupiedBelow(w.tab, w.cap))
            /\ DOMAIN w.tab = OccupiedBelow(w.tab, w.cap)

\* every word of the filling text is stored in a table that grew for them
C2_Witness ==
    /\ Open
    /\ w.cap = 2 * WC_MIN_INIT_CAP
    /\ w.len = FillWords
    /\ rc = WC_OK

\* C3, as stated: after every successful insert unique * 10 < capacity * 7.
\* A counter with unique > 0 is in the state its last successful insert left,
\* but for a later growth, which only widens the margin.
C3_LoadStrictlyBelowThreshold ==
    (Open /\ w.len > 0) => w.len * 10 < w.cap * 7

\* C3, amended: the load-factor test precedes the insert, so what holds after
\* every successful insert is (unique - 1) * 10 < capacity * 7; unique * 10
\* may reach capacity * 7 (unique 12 at capacity 16).
C3_LoadBelowThresholdBeforeInsert ==
    (Open /\ w.len > 0) => (w.len - 1) * 10 < w.cap * 7

\* a successful call in dynamic mode left the table at the threshold
C3_Witness ==
    /\ Open
    /\ ~w.alloc.static_mode
    /\ call.op = "add"
    /\ call.rc = WC_OK
    /\ at_threshold(w.len, w.cap)

(* ----- properties: the capacity ------------------------------------------ *)

IsPow2(n) == \E k \in 0..30 : n = 2^k

\* C4: for every successfully constructed counter, whatever init_cap and
\* budget the caller passes, capacity is a power of two at construction and
\* after every growth, and unique <= capacity in every reachable state.
C4_CapacityPowerOfTwo ==
    Open => IsPow2(w.cap) /\ w.len <= w.cap

\* a counter constructed from an init_cap that is no power of two, under a
\* budget, has grown twice
C4_Witness ==
    /\ Open
    /\ ~IsPow2(conf.lim.init_cap)
    /\ conf.lim.max_bytes /= 0
    /\ w.cap = 4 * WC_MIN_INIT_CAP
    /\ w.len > 2 * WC_MIN_INIT_CAP

(* ----- properties: the tokenizer ----------------------------------------- *)

IsLetter(b) == b \in (65..90) \cup (97..122)

Lowered(b) == IF b \in 65..90 THEN b + 32 ELSE b

\* the maximal runs of letters in text[1 .. len], as pairs <<first, last>>
LetterRuns(text, len) ==
    LET firsts == {i \in 1..len :
                      IsLetter(text[i]) /\ (i = 1 \/ ~IsLetter(text[i - 1]))}
        lasts == {j \in 1..len :
                     IsLetter(text[j]) /\ (j = len \/ ~IsLetter(text[j + 1]))}
    IN  {r \in firsts \X lasts :
            r[1] <= r[2] /\ \A k \in r[1]..r[2] : IsLetter(text[k])}

\* the key of the run r: its first maxw bytes, lowercased
RunKey(text, r, maxw) ==
    [k \in 1..(IF r[2] - r[1] + 1 < maxw THEN r[2] - r[1] + 1 ELSE maxw) |->
        Lowered(text[r[1] + k - 1])]

\* the pairs <<key, count>> a scan of text[1 .. len] is to leave
RunCounts(text, len, maxw) ==
    LET runs == LetterRuns(text, len) IN
    {<<RunKey(text, r, maxw),
       Cardinality({q \in runs : RunKey(text, q, maxw) = RunKey(text, r, maxw)})>> :
     r \in runs}

\* the key bytes of slot s
StoredKey(bytes, s) == [k \in 1..s.n |-> bytes[s.word][k]]

\* the pairs <<key, count>> a counter with the fields c and the arena bytes
\* holds
EntriesOf(c, bytes) ==
    {<<StoredKey(bytes, c.tab[i]), c.tab[i].cnt>> :
     i \in OccupiedBelow(c.tab, c.cap)}

Entries == EntriesOf(w, mem)

\* C5: on a fresh counter with no allocation failure, scan(bytes, length)
\* returns Ok and leaves one occurrence for every maximal run of ASCII
\* letters inside the first length bytes, under the key formed by lowercasing
\* the run and keeping its first max_token_len bytes; every other byte value
\* is a separator, and the excess letters of a long run start no token.
C5_ScanCountsLetterRuns ==
    (Open /\ call.op = "scan" /\ ops = 1) =>
        /\ rc = WC_OK
        /\ Entries = RunCounts(call.arg, call.len, w.maxw)
        /\ w.tot = Cardinality(LetterRuns(call.arg, call.len))
        /\ w.len = Cardinality(Entries)

\* three runs longer than max_token_len were scanned and share their first
\* max_token_len bytes
C5_Witness ==
    /\ Open
    /\ call.op = "scan"
    /\ call.arg = TextTrunc
    /\ call.len = Len(TextTrunc)
    /\ w.maxw = MIN_WORD
    /\ w.tot = 3
    /\ w.len = 1

(* ----- properties: additions ---------------------------------------------- *)

\* the first n bytes of key
Prefix(key, n) == [k \in 1..n |-> key[k]]

\* the key wc_add is to count for the string key
AddedKey(key, maxw) == Prefix(key, IF Len(key) < maxw THEN Len(key) ELSE maxw)

\* the count of the key k among the pairs E, 0 when absent
CountIn(E, k) ==
    IF \E e \in E : e[1] = k THEN (CHOOSE e \in E : e[1] = k)[2] ELSE 0

\* this step is a successful wc_add of a non-empty string
AddSucceeds ==
    /\ ops' = ops + 1
    /\ call'.op = "add"
    /\ call'.rc = WC_OK
    /\ call'.len > 0

\* total and the count of the added key go up by one, the key is created with
\* count 1 and unique goes up by one where the key was absent, and nothing
\* else changes
AddEffect ==
    LET k == AddedKey(call'.arg, w.maxw)
        c == CountIn(Entries, k)
    IN  /\ w'.tot = w.tot + 1
        /\ EntriesOf(w', mem') = (Entries \ {<<k, c>>}) \cup {<<k, c + 1>>}
        /\ w'.len = IF c = 0 THEN w.len + 1 ELSE w.len

\* C6: a successful add(key) with a non-empty key increments total by 1 and
\* increments by 1 the count of the entry whose bytes are the first
\* min(|key|, max_token_len) bytes of key with their case unchanged, creating
\* it with count 1 and incrementing unique where it was absent; no other
\* entry's key or count changes.
C6_AddCountsItsPrefix == [][AddSucceeds => AddEffect]_vars

\* a string longer than max_token_len was added to a counter that held its
\* prefix already
C6_Witness ==
    /\ Open
    /\ call.op = "add"
    /\ call.rc = WC_OK
    /\ call.len > w.maxw
    /\ CountIn(Entries, AddedKey(call.arg, w.maxw)) > 1

(* ----- properties: the snapshot -------------------------------------------- *)

\* the bytes of the NUL-terminated string at p
KeyAt(p) ==
    Prefix(mem[p], (CHOOSE n \in 1..Len(mem[p]) :
                       mem[p][n] = 0 /\ \A j \in 1..(n - 1) : mem[p][j] /= 0) - 1)

\* a comes before b in the lexicographic order of unsigned bytes
LexLess(a, b) ==
    \E k \in 1..(Len(b)) :
        /\ \A j \in 1..(k - 1) : j <= Len(a) /\ a[j] = b[j]
        /\ k > Len(a) \/ a[k] < b[k]

\* C7: whenever snapshot returns Ok with n entries, for all i < j either
\* entry i has the larger count, or the counts are equal and key i is
\* smaller than key j in the lexicographic order of unsigned bytes; no two
\* entries compare equal.
C7_SnapshotStrictlyOrdered ==
    res.out /= NULL =>
        \A i, j \in 1..res.n :
            i < j =>
                \/ res.arr[i].count > res.arr[j].count
                \/ /\ res.arr[i].count = res.arr[j].count
                   /\ LexLess(KeyAt(res.arr[i].word), KeyAt(res.arr[j].word))

\* a snapshot holds entries of different counts, entries of one count, and a
\* key with a byte >= 0x80
C7_Witness ==
    /\ res.out /= NULL
    /\ \E i, j \in 1..res.n : res.arr[i].count > res.arr[j].count
    /\ \E i, j \in 1..res.n : i /= j /\ res.arr[i].count = res.arr[j].count
    /\ \E i \in 1..res.n : KeyAt(res.arr[i].word)[1] >= 128

\* what C8 says of a wc_results that returned r, its malloc being made to
\* fail where fail = 1
SnapshotAsClaimed(r, fail) ==
    /\ r.rc /= WC_ERROR
    /\ (fail = 0 \/ w.len = 0) =>
           /\ r.rc = WC_OK
           /\ r.n = w.len
           /\ Len(r.arr) = r.n
           /\ (r.out = NULL) = (w.len = 0)
           /\ {<<KeyAt(r.arr[i].word), r.arr[i].count>> : i \in 1..r.n} = Entries
           /\ Cardinality({r.arr[i].word : i \in 1..r.n}) = r.n

\* C8: for a non-null counter and non-null out-parameters, in every
\* reachable state (also after failed inserts), snapshot returns Ok whenever
\* its own array allocation succeeds, with length equal to unique and holding
\* each stored key exactly once with its current count (a null array and
\* length 0 when unique is 0); the corruption error is never returned.
C8_SnapshotOkAndComplete ==
    Open =>
        \A fail \in 0..1 :
            SnapshotAsClaimed(wc_results(handle, w, mem, oom_arm(heap, fail)),
                              fail)

\* a snapshot was taken after an insert that failed for lack of memory
C8_Witness ==
    /\ res.out /= NULL
    /\ res.n > 0
    /\ call.rc = WC_NOMEM
    /\ rc = WC_OK

(* ----- properties: colliding keys ------------------------------------------ *)

StoredKeys == {e[1] : e \in Entries}

\* the keys of the tokens of the last call
CallTokens ==
    IF call.op = "scan"
    THEN {RunKey(call.arg, r, w.maxw) : r \in LetterRuns(call.arg, call.len)}
    ELSE IF call.op = "add" /\ call.len > 0
    THEN {AddedKey(call.arg, w.maxw)}
    ELSE {}

\* C10: two tokens that differ in length or in any byte are stored as two
\* separate entries, also when their hashes are equal and they probe the same
\* slot: every token of a call that succeeded is a stored key, and no two
\* slots hold the same key.
C10_DistinctTokensDistinctEntries ==
    Open =>
        /\ call.rc = WC_OK => CallTokens \subseteq StoredKeys
        /\ Cardinality(StoredKeys) = Cardinality(OccupiedBelow(w.tab, w.cap))

\* two keys of different lengths and one hash are stored in two slots
C10_Witness ==
    /\ Open
    /\ w.tot = 2
    /\ w.len = 2
    /\ \E i, j \in OccupiedBelow(w.tab, w.cap) :
           /\ i /= j
           /\ w.tab[i].hash = w.tab[j].hash
           /\ w.tab[i].n /= w.tab[j].n

(* ----- properties: the cursor ---------------------------------------------- *)

\* the places of yielded where wc_cursor_next returned an entry
YieldedAt == {i \in 1..Len(yielded) : yielded[i].ret = 1}

\* the pairs <<key pointer, count>> of the occupied slots
SlotPairs ==
    {<<w.tab[i].word, w.tab[i].cnt>> : i \in OccupiedBelow(w.tab, w.cap)}

\* sum of the counts yielded at the places S
SumYielded(S) ==
    Cardinality(UNION {{<<i, j>> : j \in 1..yielded[i].count} : i \in S})

\* C9: a cursor initialised on a counter and advanced with no intervening
\* add/scan yields exactly unique entries, each occupied slot exactly once
\* with a non-null key and a count >= 1, the yielded counts summing to total;
\* after the last entry every further cursor_next returns none.
C9_CursorYieldsEverySlotOnce ==
    cursor.w /= NULL =>
        /\ \A i \in YieldedAt :
               /\ yielded[i].word /= NULL
               /\ yielded[i].count >= 1
               /\ <<yielded[i].word, yielded[i].count>> \in SlotPairs
        /\ \A i, j \in YieldedAt : i /= j => yielded[i].word /= yielded[j].word
        /\ \A i \in 1..Len(yielded) :
               yielded[i].ret = 0 =>
                   /\ \A j \in i..Len(yielded) : yielded[j].ret = 0
                   /\ Cardinality(YieldedAt) = w.len
                   /\ SumYielded(YieldedAt) = w.tot
        /\ Cardinality(YieldedAt) <= w.len

\* the cursor went through a table that had grown and holds a key counted
\* more than once, and returned none again after its end
C9_Witness ==
    /\ cursor.w /= NULL
    /\ w.cap > WC_MIN_INIT_CAP
    /\ w.tot > w.len
    /\ Len(yielded) > w.len + 1
(* ----- properties: truncated tokens ---------------------------------------- *)

\* the keys of the tokens of the call c made on a counter with maxw
TokensOf(c, maxw) ==
    IF c.op = "scan"
    THEN {RunKey(c.arg, r, maxw) : r \in LetterRuns(c.arg, c.len)}
    ELSE IF c.op = "add" /\ c.len > 0
    THEN {AddedKey(c.arg, maxw)}
    ELSE {}

\* the number of tokens of the call c whose key is k
TokenCount(c, maxw, k) ==
    IF c.op = "scan"
    THEN Cardinality({r \in LetterRuns(c.arg, c.len) :
                         RunKey(c.arg, r, maxw) = k})
    ELSE IF k \in TokensOf(c, maxw) THEN 1 ELSE 0

\* this step is the second call made on the counter, and the first and the
\* second call both returned Ok
SecondCallSucceeds ==
    /\ ops = 1
    /\ ops' = 2
    /\ call.rc = WC_OK
    /\ call'.rc = WC_OK

\* every token of the two calls is counted under the one entry whose key is
\* its first maxw bytes, with the number of tokens that share these bytes
PairEffect ==
    LET keys == TokensOf(call, w.maxw) \cup TokensOf(call', w.maxw)
        after == EntriesOf(w', mem')
    IN  /\ w'.len = Cardinality(keys)
        /\ \A k \in keys :
               /\ Cardinality({e \in after : e[1] = k}) = 1
               /\ CountIn(after, k) =
                      TokenCount(call, w.maxw, k) + TokenCount(call', w.maxw, k)

\* C11: two inputs that share their first max_token_len bytes (after case
\* folding for scan, byte for byte for add) are counted under one entry whose
\* key is that shared prefix: after two successful calls on a fresh counter
\* unique is the number of distinct prefixes, and the count of each prefix is
\* the number of tokens of both calls that begin with it.
C11_SharedPrefixOneEntry == [][SecondCallSucceeds => PairEffect]_vars

\* three different words longer than max_token_len with one prefix were
\* scanned twice and are counted under one entry
C11_Witness ==
    /\ Open
    /\ ops = 2
    /\ call.op = "scan"
    /\ call.arg = TextTrunc
    /\ call.rc = WC_OK
    /\ w.maxw = MIN_WORD
    /\ w.len = 1
    /\ CountIn(Entries, Prefix(TextTrunc, MIN_WORD)) = 6

(* ----- properties: the order of additions ---------------------------------- *)

\* the two counters were given the same keys the same number of times
SameKeysAdded ==
    /\ twin /= NoTwin
    /\ ops > 0
    /\ \A k \in PermKeys : twin.pending[k] = 0

\* the two counters hold the same pairs <<key, count>>
SameEntries == Entries = EntriesOf(twin.m.w, twin.m.mem)

CallKeys(c, maxw) ==
    IF c.op = "scan"
    THEN LET runs == LetterRuns(c.arg, c.len)
             nth(i) == CHOOSE r \in runs :
                           Cardinality({q \in runs : q[1] < r[1]}) = i - 1
         IN  [i \in 1..Cardinality(runs) |-> RunKey(c.arg, nth(i), maxw)]
    ELSE IF c.op = "add" /\ c.len > 0 THEN <<AddedKey(c.arg, maxw)>>
    ELSE <<>>

\* the pairs <<key, count>> after counting keys[1 .. k] into the pairs E
CountedFirst(E, keys, k) ==
    {<<key, CountIn(E, key) + Cardinality({i \in 1..k : keys[i] = key})>> :
     key \in {e[1] : e \in E} \cup {keys[i] : i \in 1..k}}

\* the last add or scan call returned WC_NOMEM
CallFailed ==
    /\ prev /= NoPrev
    /\ call.rc = WC_NOMEM

\* the call counted the k tokens before the one whose insertion failed, and
\* the failing insertion left total, unique and the stored pairs as these k
\* insertions had made them
FailedInsertEffect ==
    LET keys == CallKeys(call, w.maxw)
        k == w.tot - prev.w.tot
        before == EntriesOf(prev.w, prev.mem)
    IN  /\ k \in 0..(Len(keys) - 1)
        /\ Entries = CountedFirst(before, keys, k)
        /\ w.len = Cardinality(CountedFirst(before, keys, k))

\* C13: an add or scan that returns OutOfMemory leaves total, unique and the
\* stored (key, count) pairs as they were immediately before the insertion
\* that failed, whether the failure came from the load threshold, a failed
\* growth, or a failed key-storage allocation after a successful growth.
C13_FailedInsertChangesNothing == CallFailed => FailedInsertEffect

\* an add grew the table and then failed to allocate the key: the capacity is
\* doubled and the counter holds what it held
C13_Witness ==
    /\ Open
    /\ call.op = "add"
    /\ call.rc = WC_NOMEM
    /\ call.fail = 2
    /\ w.cap = 2 * WC_MIN_INIT_CAP
    /\ w.len = BrimLen
    /\ w.tot = BrimLen

(* ----- properties: failing scans ------------------------------------------- *)

\* the last call was a scan that returned WC_NOMEM
ScanFailed ==
    /\ prev /= NoPrev
    /\ call.op = "scan"
    /\ call.rc = WC_NOMEM

\* the offset of the first letter of word number i of text[1 .. len]
WordOffset(text, len, i) ==
    LET runs == LetterRuns(text, len)
    IN  (CHOOSE r \in runs :
             Cardinality({q \in runs : q[1] < r[1]}) = i - 1)[1] - 1

\* e = [rc, m] is what a scan with no allocation failure returned, and the
\* counter holds what e.m holds; it is e.m slot for slot where the
\* capacities are equal
HoldsWhat(e) ==
    /\ e.rc = WC_OK
    /\ e.m.w.tot = w.tot
    /\ e.m.w.len = w.len
    /\ EntriesOf(e.m.w, e.m.mem) = Entries
    /\ e.m.w.cap = w.cap => e.m.w.tab = w.tab /\ e.m.mem = mem

\* the failing scan left what a scan of the bytes before the first word whose
\* insertion failed leaves, made on the counter as it was
PrefixEffect ==
    LET k == w.tot - prev.w.tot
    IN  /\ k \in 0..(Cardinality(LetterRuns(call.arg, call.len)) - 1)
        /\ Bind(WordOffset(call.arg, call.len, k + 1), LAMBDA n :
           Bind([w |-> prev.w, mem |-> prev.mem, heap |-> prev.heap],
                LAMBDA m :
           Bind(wc_scan(m, call.arg, FALSE, n), HoldsWhat)))

\* the last call followed a scan that returned WC_NOMEM
FollowsFailedScan ==
    /\ prev /= NoPrev
    /\ prev.call.op = "scan"
    /\ prev.call.rc = WC_NOMEM

\* the call was not rejected, and where it returned WC_OK each of its tokens
\* was counted
Accepted ==
    /\ call.rc \in {WC_OK, WC_NOMEM}
    /\ call.rc = WC_OK =>
           w.tot = prev.w.tot + Len(CallKeys(call, w.maxw))

LastCallFailed ==
    /\ Open
    /\ prev /= NoPrev
    /\ call.rc = WC_NOMEM

RECURSIVE CursorSteps(_, _, _)
\* the number of calls of wc_cursor_next on the cursor c that return 1 before
\* the first that returns 0; -1 where limit calls all return 1
CursorSteps(c, cw, limit) ==
    IF limit = 0 THEN -1
    ELSE Bind(wc_cursor_next(c, cw), LAMBDA r :
         IF r.ret = 0 THEN 0
         ELSE Bind(CursorSteps(r.c, cw, limit - 1), LAMBDA rest :
              IF rest < 0 THEN -1 ELSE rest + 1))

\* wc_results returned r: WC_OK and as many entries as unique
SnapshotHasUnique(r) == r.rc = WC_OK /\ r.n = w.len

\* wc_close left the machine state m: nothing is left allocated, and nothing
\* was released that was not allocated
ClosedClean(m) == m.heap.live = <<>> /\ ~m.heap.bad

\* a counter that is not static was given, with no allocation failing, a key
\* it did not hold, after a call in which an allocation was made to fail
AddsNewKeyAfterFailure ==
    /\ prev /= NoPrev
    /\ prev.call.rc = WC_NOMEM
    /\ prev.call.fail > 0
    /\ ~w.alloc.static_mode
    /\ call.op = "add"
    /\ call.fail = 0
    /\ call.len > 0
    /\ CountIn(EntriesOf(prev.w, prev.mem), AddedKey(call.arg, w.maxw)) = 0

\* C15: after an add or scan that returned OutOfMemory the counter stays
\* operational: total and unique describe the stored entries, a snapshot
\* returns Ok with exactly unique entries, a cursor traversal ends after
\* unique entries, close releases everything and nothing else, and in dynamic
\* mode a later add of a new key, made when the allocation that failed can be
\* satisfied, returns Ok and stores the key.
C15_OperationalAfterFailure ==
    /\ LastCallFailed =>
          /\ w.tot = SumCnt(w.tab, OccupiedBelow(w.tab, w.cap))
          /\ w.len = Cardinality(OccupiedBelow(w.tab, w.cap))
          /\ Bind(wc_results(handle, w, mem, heap), SnapshotHasUnique)
          /\ CursorSteps(wc_cursor_init(handle), w, w.cap + 1) = w.len
          /\ Bind(wc_close([w |-> w, mem |-> mem, heap |-> heap], handle),
                  ClosedClean)
    /\ AddsNewKeyAfterFailure =>
          /\ call.rc = WC_OK
          /\ w.len = prev.w.len + 1
          /\ w.tot = prev.w.tot + 1

\* a scan failed where the table was to grow; the add of a new key that
\* followed, with no allocation failing, returned WC_OK
C15_Witness ==
    /\ Open
    /\ AddsNewKeyAfterFailure
    /\ prev.call.op = "scan"
    /\ prev.call.arg = TextBrim
    /\ prev.w.cap = WC_MIN_INIT_CAP
    /\ call.rc = WC_OK
    /\ w.cap = 2 * WC_MIN_INIT_CAP
    /\ w.len = BrimLen + 1

(* ----- properties: the static table ---------------------------------------- *)

\* the counter is open, it is static, and a call was made on it
StaticCalled ==
    /\ Open
    /\ prev /= NoPrev
    /\ w.alloc.static_mode

\* unique after the first k of the keys are counted into the pairs E
UniqueAfter(E, keys, k) == Cardinality(CountedFirst(E, keys, k))

\* the token number j of the last call was met with unique at the load
\* threshold: it was not inserted, and the call returned WC_NOMEM
RefusedAtThreshold ==
    LET keys == CallKeys(call, w.maxw)
        E == EntriesOf(prev.w, prev.mem)
    IN  \A j \in 1..Len(keys) :
            at_threshold(UniqueAfter(E, keys, j - 1), w.cap) =>
                /\ call.rc = WC_NOMEM
                /\ w.tot - prev.w.tot < j

\* C16: in static mode the capacity never changes after construction, and
\* every insertion attempted while unique * 10 >= capacity * 7 returns
\* OutOfMemory and changes nothing, whether the token is new or already
\* stored: a call that starts at the threshold with a token leaves the counter
\* as it was.
C16_StaticTableNeverGrows ==
    StaticCalled =>
        /\ w.cap = prev.w.cap
        /\ w.cap = tune_params(conf.lim).init_cap
        /\ w.tabp = prev.w.tabp
        /\ RefusedAtThreshold
        /\ (at_threshold(prev.w.len, prev.w.cap)
            /\ Len(CallKeys(call, w.maxw)) > 0) =>
               w = prev.w /\ mem = prev.mem

\* a scan of a static counter was refused at a word already stored, once
\* unique had reached the threshold, and the add of a new key that followed
\* was refused as well
C16_Witness ==
    /\ StaticCalled
    /\ prev.call.op = "scan"
    /\ prev.call.arg = TextBrim
    /\ prev.call.rc = WC_NOMEM
    /\ prev.w.tot = BrimLen
    /\ at_threshold(prev.w.len, prev.w.cap)
    /\ call.op = "add"
    /\ call.len > 0
    /\ call.rc = WC_NOMEM
    /\ AddedKey(call.arg, w.maxw) \notin StoredKeys

(* ----- properties: the static arena ---------------------------------------- *)

\* the bytes [p, p + n) lie in buf[] of the block b
InBlock(b, p, n) ==
    /\ b.addr + SizeofBlock <= p
    /\ p + n <= b.addr + SizeofBlock + b.cap

\* sz bytes do not fit in the space left in the block b: the test of
\* arena_alloc fails
NoRoom(b, sz) ==
    LET pad == (WC_ALIGN - (b.cur % WC_ALIGN)) % WC_ALIGN
        avail == b.cap - b.cur
    IN  ~(avail >= pad /\ avail - pad >= sz)

\* the last call was an add of a key the counter did not hold, made below the
\* load threshold when the key and its NUL did not fit in the block
AddedWithNoRoom ==
    /\ call.op = "add"
    /\ call.len > 0
    /\ ~at_threshold(prev.w.len, prev.w.cap)
    /\ CountIn(EntriesOf(prev.w, prev.mem), AddedKey(call.arg, w.maxw)) = 0
    /\ NoRoom(prev.w.arena.blocks[1], Len(AddedKey(call.arg, w.maxw)) + 1)

\* C17: in static mode the arena is exactly one block for the whole lifetime
\* of the counter: every key lies in the block made at construction, and an
\* insertion of a new key that does not fit in the space left in it returns
\* OutOfMemory with no second block requested, the region being used as far
\* as it was.
C17_StaticArenaOneBlock ==
    (Open /\ w.alloc.static_mode) =>
        /\ Len(w.arena.blocks) = 1
        /\ w.arena.blocks[1].cur <= w.arena.blocks[1].cap
        /\ \A i \in OccupiedBelow(w.tab, w.cap) :
               InBlock(w.arena.blocks[1], w.tab[i].word, w.tab[i].n + 1)
        /\ prev /= NoPrev =>
               /\ w.arena.blocks[1].addr = prev.w.arena.blocks[1].addr
               /\ w.arena.blocks[1].cap = prev.w.arena.blocks[1].cap
               /\ w.alloc = prev.w.alloc
               /\ AddedWithNoRoom => call.rc = WC_NOMEM /\ w = prev.w

\* a key was added to a static counter whose block was full and whose region
\* had room for a second block, and was refused
C17_Witness ==
    /\ StaticCalled
    /\ AddedWithNoRoom
    /\ call.rc = WC_NOMEM
    /\ w.alloc.sbuf_size - w.alloc.sbuf_used
           >= SizeofBlock + w.arena.blocks[1].cap + WC_ALIGN
    /\ w.len > 0

(* ----- properties: the static region --------------------------------------- *)

\* the counter was constructed over a caller-supplied region
StaticConf ==
    /\ ~conf.lim.nil
    /\ conf.lim.static_buf /= NULL
    /\ conf.lim.static_size > 0

\* the internal allocations of the open counter, as pairs <<address, size>>:
\* the slot array, the arena blocks and the scan buffer where it is not on
\* the stack
Regions ==
    {<<w.tabp, w.cap * SizeofSlot>>}
    \cup {<<w.arena.blocks[i].addr, SizeofBlock + w.arena.blocks[i].cap>> :
          i \in 1..Len(w.arena.blocks)}
    \cup (IF w.scanbuf /= NULL THEN {<<w.scanbuf, w.maxw>>} ELSE {})

\* the region r lies in the used part of the caller's region
InStaticRegion(r) ==
    /\ w.alloc.sbuf = conf.lim.static_buf
    /\ w.alloc.sbuf_size = conf.lim.static_size
    /\ w.alloc.sbuf <= r[1]
    /\ r[1] + r[2] <= w.alloc.sbuf + w.alloc.sbuf_used

Disjoint(r, s) == r[1] + r[2] <= s[1] \/ s[1] + s[2] <= r[1]

\* what the heap holds: the handle while the counter is open, and the array of
\* the last snapshot until it is released
HeapHolds ==
    (IF handle /= NULL THEN {<<handle, SizeofWc>>} ELSE {})
    \cup (IF res.out /= NULL THEN {<<res.out, res.n * SizeofWord>>} ELSE {})

\* C18: in static mode every internal allocation (slot array, arena block,
\* heap-resident scan buffer) is a region inside [base, base + size), the
\* regions do not overlap, region_used <= region_size, the heap holds the
\* handle and the snapshot arrays and nothing else, and nothing that is not a
\* live heap allocation, so no address of the static region, is passed to the
\* heap free primitive, also at close.
C18_StaticRegionHoldsAllocations ==
    StaticConf =>
        /\ {<<p, heap.live[p]>> : p \in DOMAIN heap.live} = HeapHolds
        /\ ~heap.bad
        /\ Open =>
              /\ w.alloc.static_mode
              /\ w.alloc.sbuf_used <= w.alloc.sbuf_size
              /\ \A r \in Regions : InStaticRegion(r)
              /\ \A r, s \in Regions : r /= s => Disjoint(r, s)
              /\ Cardinality(Regions) = 1 + Len(w.arena.blocks)

\* a static counter was filled, a snapshot was taken and released, and the
\* counter was closed: the heap holds nothing
C18_Witness ==
    /\ StaticConf
    /\ handle = NULL
    /\ ops > 0
    /\ call.rc = WC_NOMEM
    /\ rc = WC_OK
    /\ res.out = NULL
    /\ heap.live = <<>>

(* ----- properties: the byte budget ------------------------------------------ *)

\* the counter was constructed with a nonzero max_bytes
BudgetConf == ~conf.lim.nil /\ conf.lim.max_bytes /= 0

\* max_bytes, clamped to the size of the static region in static mode
BudgetLimit ==
    IF conf.lim.static_buf /= NULL /\ conf.lim.static_size > 0
       /\ conf.lim.max_bytes > conf.lim.static_size
    THEN conf.lim.static_size
    ELSE conf.lim.max_bytes

\* the bytes of the allocations of wc_open_ex: the slot array and the first
\* arena block with its header
InitialBytes ==
    LET tuned == tune_params(conf.lim)
    IN  tuned.init_cap * SizeofSlot + SizeofBlock
        + open_block_sz(tuned.block_sz, clamp_max_word(conf.max_word))

\* the last call was an add of a non-empty key made at the load threshold of
\* a table that can grow, with no allocation made to fail: tab_grow is its
\* first step
AddedAtThreshold ==
    /\ prev /= NoPrev
    /\ ~w.alloc.static_mode
    /\ call.op = "add"
    /\ call.len > 0
    /\ call.fail = 0
    /\ at_threshold(prev.w.len, prev.w.cap)

\* bytes_used at the moment of tab_grow when the old and the new slot arrays
\* are both allocated
GrowthPeak == prev.w.alloc.bytes_used + 2 * prev.w.cap * SizeofSlot

\* C19: for a counter built with a nonzero byte budget, bytes_used <=
\* bytes_limit in every state, bytes_limit being the budget clamped to the
\* static region size in static mode; the table grows only where the old and
\* the new slot arrays together fit in the budget, and construction returns
\* null exactly when the initial allocations do not fit.
C19_BudgetNeverExceeded ==
    BudgetConf =>
        /\ handle = NULL <=> InitialBytes > BudgetLimit
        /\ Open =>
              /\ w.alloc.bytes_limit = BudgetLimit
              /\ w.alloc.bytes_used <= w.alloc.bytes_limit
              /\ w.alloc.bytes_used >= InitialBytes
        /\ (Open /\ AddedAtThreshold) =>
              IF GrowthPeak <= BudgetLimit
              THEN w.cap = 2 * prev.w.cap
              ELSE call.rc = WC_NOMEM /\ w = prev.w

\* an add found the table at the load threshold and was refused: the new slot
\* array fits in the budget in place of the old one, and not beside it
C19_Witness ==
    /\ BudgetConf
    /\ Open
    /\ AddedAtThreshold
    /\ call.rc = WC_NOMEM
    /\ GrowthPeak > BudgetLimit
    /\ GrowthPeak - prev.w.cap * SizeofSlot <= BudgetLimit

(* ----- properties: the smallest static region ------------------------------- *)

\* the bytes of a table of WC_MIN_INIT_CAP slots and of an arena block of
\* WC_MIN_BLOCK_SZ bytes with its header
MinStaticBytes ==
    WC_MIN_INIT_CAP * SizeofSlot + SizeofBlock + WC_MIN_BLOCK_SZ

\* the counter was constructed over a region of static_size bytes with every
\* other field of the limits zero
SweepConf ==
    conf = [max_word |-> 0,
            lim |-> [ZeroLimits EXCEPT
                        !.static_buf = StaticBase,
                        !.static_size = conf.lim.static_size]]

\* C20: construction over an aligned static region with every other field of
\* the configuration zero is monotone in the size of the region over
\* 1 .. 4096: there is one size S_min <= 4096, the bytes of the smallest table
\* and the smallest arena block, such that construction returns null for every
\* size below S_min and a counter for S_min and every larger size.
C20_StaticOpenMonotone ==
    /\ MinStaticBytes \in 2..StaticSweep
    /\ SweepConf =>
          /\ conf.lim.static_size \in 1..StaticSweep
          /\ handle = NULL <=> conf.lim.static_size < MinStaticBytes

\* a counter constructed over a region of exactly S_min bytes counted a key
C20_Witness ==
    /\ SweepConf
    /\ conf.lim.static_size = MinStaticBytes
    /\ handle /= NULL
    /\ w.tot = 1

(* ----- properties: growth without limits ------------------------------------ *)

\* the counter is in dynamic mode and has no byte budget
Unlimited == ~w.alloc.static_mode /\ w.alloc.bytes_limit = 0

\* the last add or scan call was made on such a counter with no allocation
\* failing
CalledUnlimited ==
    /\ Open
    /\ prev /= NoPrev
    /\ Unlimited
    /\ call.fail = 0

\* every entry held before the last call is held with its count and the
\* occurrences of its key in the call
EarlierEntriesKept ==
    \A e \in EntriesOf(prev.w, prev.mem) :
        CountIn(Entries, e[1]) = e[2] + TokenCount(call, w.maxw, e[1])

\* C21: in dynamic mode with no byte budget and a heap that never fails, every
\* add with a non-null key and every scan with valid arguments returns Ok, for
\* any number of distinct keys: the table grows and the arena chains further
\* blocks as needed, and all earlier entries keep their counts.
C21_UnlimitedCallsSucceed ==
    CalledUnlimited =>
        /\ call.rc = WC_OK
        /\ CallTokens \subseteq StoredKeys
        /\ w.tot = prev.w.tot + Len(CallKeys(call, w.maxw))
        /\ EarlierEntriesKept

\* a call made on a counter whose table was at the threshold and whose arena
\* blocks were full returned WC_OK, the table grown and a block chained
C21_Witness ==
    /\ CalledUnlimited
    /\ prev.w.len > 0
    /\ call.rc = WC_OK
    /\ w.cap = 2 * prev.w.cap
    /\ Len(w.arena.blocks) = Len(prev.w.arena.blocks) + 1
    /\ w.len = prev.w.len + 1

(* ----- properties: the stored keys ------------------------------------------ *)

\* the key pointers held before the last call
EarlierWords ==
    IF prev = NoPrev THEN {}
    ELSE {prev.w.tab[i].word : i \in OccupiedBelow(prev.w.tab, prev.w.cap)}

\* the slot s holds a key with 1 <= |k| <= max_token_len followed by a NUL
KeyWellFormed(s) ==
    /\ s.n >= 1
    /\ s.n <= w.maxw
    /\ s.word \in DOMAIN mem
    /\ Len(mem[s.word]) = s.n + 1
    /\ mem[s.word][s.n + 1] = 0

\* the slot s holds a key the last call inserted: lowercase letters alone
\* when the call was a scan, the truncated argument when it was an add
KeyAsInserted(s) ==
    /\ call.op = "scan" => \A k \in 1..s.n : mem[s.word][k] \in 97..122
    /\ call.op = "add" => StoredKey(mem, s) = AddedKey(call.arg, w.maxw)
    /\ call.op \in {"scan", "add"}

\* the slot s holds a key stored before the last call, with the bytes it had
KeyAsBefore(s) ==
    /\ s.word \in DOMAIN prev.mem
    /\ mem[s.word] = prev.mem[s.word]

\* C22: for every stored key k in every reachable state, 1 <= |k| <=
\* max_token_len and the byte following the key in storage is 0; a key that a
\* scan inserted has every byte in a..z, and a key that an add inserted is
\* byte-identical, in its original case, to the truncated input.
C22_StoredKeysWellFormed ==
    Open =>
        \A i \in OccupiedBelow(w.tab, w.cap) :
            /\ KeyWellFormed(w.tab[i])
            /\ IF w.tab[i].word \in EarlierWords
               THEN KeyAsBefore(w.tab[i])
               ELSE KeyAsInserted(w.tab[i])

\* a counter holds a key an add inserted with a capital letter and the same
\* word in lowercase, inserted by a scan of a text that has it in capitals
C22_Witness ==
    /\ Open
    /\ prev /= NoPrev
    /\ prev.call.op = "add"
    /\ prev.call.arg = KeyHello
    /\ call.op = "scan"
    /\ call.arg = TextCase
    /\ Entries = {<<KeyHello, 1>>, <<Keyhello, 4>>}

(* ----- properties: the clamp of max_word ------------------------------------- *)

\* clamp(requested, 4, MAX_TOKEN_CEILING), a request of 0 meaning 64
ClampOf(requested) ==
    LET asked == IF requested = 0 THEN DEF_WORD ELSE requested
        floor == IF asked > MIN_WORD THEN asked ELSE MIN_WORD
    IN  IF floor < WC_MAX_WORD THEN floor ELSE WC_MAX_WORD

\* the one key a counter holds after a call that gave it the word call.arg:
\* its first bytes, as many as the clamp allows
ClampedEntry ==
    LET limit == ClampOf(conf.max_word)
        n == IF call.len < limit THEN call.len ELSE limit
    IN  <<Prefix(call.arg, n), 1>>

\* C23: the effective max_token_len of a counter is
\* clamp(requested, 4, MAX_TOKEN_CEILING) with a request of 0 meaning 64: a
\* request below 4 stores keys of up to 4 bytes, a request above the ceiling
\* stores keys of up to exactly MAX_TOKEN_CEILING bytes.
C23_MaxWordClamped ==
    Open =>
        /\ w.maxw = ClampOf(conf.max_word)
        /\ w.maxw \in MIN_WORD..WC_MAX_WORD
        /\ ops = 1 => rc = WC_OK /\ Entries = {ClampedEntry}

\* a counter opened with a max_word above WC_MAX_WORD was given a longer word
\* and holds its first WC_MAX_WORD bytes
C23_Witness ==
    /\ Open
    /\ conf.max_word > WC_MAX_WORD
    /\ call.op = "add"
    /\ call.len > WC_MAX_WORD
    /\ Entries = {<<Letters(WC_MAX_WORD), 1>>}

(* ----- properties: calls that count nothing --------------------------------- *)

\* the last call made on the counter was a scan of no bytes, a scan of bytes
\* with no letter among them, or an add of the empty string
NeutralCall ==
    /\ Open
    /\ prev /= NoPrev
    /\ \/ call.op \in {"scan", "scan_null"} /\ call.len = 0
       \/ call.op = "scan" /\ \A i \in 1..call.len : ~IsLetter(call.arg[i])
       \/ call.op = "add" /\ call.len = 0

\* C24: on a non-null counter, scan with length 0 returns Ok and changes no
\* state even when bytes is null, scan of a buffer containing no letter
\* returns Ok and changes no state, and add of the empty string returns Ok and
\* changes no state: total, unique, entries, capacity and allocator accounting
\* are all unchanged.
C24_EmptyInputNeutral ==
    NeutralCall =>
        /\ call.rc = WC_OK
        /\ w = prev.w
        /\ mem = prev.mem
        /\ Entries = EntriesOf(prev.w, prev.mem)
        /\ ~heap.bad

\* a counter that holds entries was given NULL and the length 0 to scan
C24_Witness ==
    /\ NeutralCall
    /\ call.op = "scan_null"
    /\ call.rc = WC_OK
    /\ w.len > 1
    /\ w.tot > w.len

(* ----- properties: invalid arguments ---------------------------------------- *)

\* the last add or scan call was given a null counter, a null key, or null
\* bytes with a length above 0
InvalidCall ==
    /\ prev /= NoPrev
    /\ \/ handle = NULL
       \/ call.op = "add_null"
       \/ call.op = "scan_null" /\ call.len > 0

\* wc_results given a null out-parameter returned r: WC_ERROR, with nothing
\* allocated and nothing written
NullOutRefused(r) ==
    /\ r.rc = WC_ERROR
    /\ r.heap = heap
    /\ <<r.out, r.arr, r.n>> = <<res.out, res.arr, res.n>>

\* wc_results given a null counter returned r: WC_ERROR, a null array and the
\* length 0, with nothing allocated
NullCounterRefused(r) ==
    /\ r.rc = WC_ERROR
    /\ r.heap = heap
    /\ <<r.out, r.arr, r.n>> = <<NULL, <<>>, 0>>

\* C25: invalid arguments are reported as values and never change a counter:
\* add with a null counter or a null key, scan with a null counter or with
\* null bytes and length > 0, and snapshot with a null counter or a null
\* out-parameter all return InvalidArg; total and unique return 0 for a null
\* counter; cursor_next on a cursor bound to a null counter returns none.
C25_InvalidArgsReported ==
    /\ InvalidCall =>
          /\ call.rc = WC_ERROR
          /\ w = prev.w
          /\ mem = prev.mem
          /\ ~heap.bad
    /\ \A out_null, n_null \in BOOLEAN :
          (out_null \/ n_null) =>
              NullOutRefused(wc_results_args(handle, w, mem, heap, res,
                                             out_null, n_null))
    /\ NullCounterRefused(wc_results_args(NULL, w, mem, heap, res,
                                          FALSE, FALSE))
    /\ wc_total(NULL, w) = 0
    /\ wc_unique(NULL, w) = 0
    /\ wc_cursor_next(wc_cursor_init(NULL), w).ret = 0
    /\ cursor.w = NULL => \A i \in 1..Len(yielded) : yielded[i].ret = 0

\* a counter that holds entries was given a null key
C25_Witness ==
    /\ Open
    /\ InvalidCall
    /\ call.op = "add_null"
    /\ call.rc = WC_ERROR
    /\ w.len > 1
    /\ w.tot > w.len

(* ----- properties: the queries ---------------------------------------------- *)

RECURSIVE BlockBytes(_, _)
\* the bytes of the arena blocks[1 .. i] with their headers
BlockBytes(blocks, i) ==
    IF i = 0 THEN 0
    ELSE BlockBytes(blocks, i - 1) + SizeofBlock + blocks[i].cap

\* the bytes of the slot array and of the arena blocks
OwnedBytes == (w.cap * SizeofSlot) + BlockBytes(w.arena.blocks, Len(w.arena.blocks))

\* bytes_used, and region_used in static mode, count the slot array and the
\* arena blocks and nothing else
AccountsOwnedBytes ==
    Open =>
        /\ w.alloc.bytes_used = OwnedBytes
        /\ w.alloc.static_mode => w.alloc.sbuf_used = OwnedBytes

\* the snapshot array is a region of the heap, outside the static region
SnapshotArrayOutside ==
    res.out /= NULL =>
        /\ res.out \in DOMAIN heap.live
        /\ heap.live[res.out] = res.n * SizeofWord
        /\ w.alloc.static_mode =>
               \/ res.out + heap.live[res.out] <= w.alloc.sbuf
               \/ res.out >= w.alloc.sbuf + w.alloc.sbuf_size

\* wc_results returned r: WC_OK, with an array when there are entries
SnapshotGiven(r) == r.rc = WC_OK /\ (r.out /= NULL <=> w.len > 0)

\* a snapshot succeeds in every state of a counter, whatever is left of the
\* budget or of the static region
SnapshotSucceeds ==
    Open => Bind(wc_results(handle, w, mem, heap), SnapshotGiven)

\* a step that is no add or scan call leaves the counter as it is
QueryKeepsCounter ==
    ops' = ops =>
        /\ handle' = handle
        /\ w' = w
        /\ mem' = mem
        /\ wc_total(handle', w') = wc_total(handle, w)
        /\ wc_unique(handle', w') = wc_unique(handle, w)

\* C26: total, unique, snapshot, dispose_snapshot, cursor_init and cursor_next
\* never modify the counter: after any number of such calls total, unique,
\* capacity, every stored (key, count) and the allocator accounting
\* (bytes_used, region_used) are unchanged; the snapshot array is not charged
\* to the byte budget or carved from the static region, so snapshot succeeds
\* when the budget is exhausted.
C26_QueriesKeepCounter ==
    /\ [](AccountsOwnedBytes /\ SnapshotArrayOutside /\ SnapshotSucceeds)
    /\ [][QueryKeepsCounter]_vars

\* a snapshot is held of a counter whose budget has no room for the array
C26_Witness ==
    /\ Open
    /\ res.out /= NULL
    /\ w.alloc.bytes_limit /= 0
    /\ w.alloc.bytes_used + (res.n * SizeofWord) > w.alloc.bytes_limit
    /\ w.alloc.bytes_used = OwnedBytes
    /\ yielded = <<>>

(* ----- properties: the addresses of the keys -------------------------------- *)

\* the key pointers of the occupied slots of the counter with the fields c
WordsOf(c) == {c.tab[i].word : i \in OccupiedBelow(c.tab, c.cap)}

\* the slot s, held before the last call, is held with its key pointer, its
\* length and the bytes of its key
SlotPinned(s) ==
    /\ \E j \in OccupiedBelow(w.tab, w.cap) :
           w.tab[j].word = s.word /\ w.tab[j].n = s.n
    /\ s.word \in DOMAIN mem
    /\ mem[s.word] = prev.mem[s.word]

\* the key pointer p, returned by a snapshot or by a cursor, is the key
\* pointer of a slot, and denotes the bytes it denoted before the last call
PointerPinned(p) ==
    /\ p \in WordsOf(w)
    /\ p \in DOMAIN mem
    /\ (prev /= NoPrev /\ p \in DOMAIN prev.mem) => mem[p] = prev.mem[p]

\* C27: once a token is stored, its storage address and its bytes never
\* change until the counter is destroyed, through any later add, scan, table
\* growth or failed operation; the key pointers of a snapshot or cursor
\* result obtained earlier therefore still denote the same key bytes after
\* later mutations.
C27_StoredKeysPinned ==
    Open =>
        /\ prev /= NoPrev =>
               \A i \in OccupiedBelow(prev.w.tab, prev.w.cap) :
                   SlotPinned(prev.w.tab[i])
        /\ \A i \in 1..res.n : PointerPinned(res.arr[i].word)
        /\ \A i \in 1..Len(yielded) :
               yielded[i].ret = 1 => PointerPinned(yielded[i].word)

\* a snapshot is held that was taken before a scan for which the table grew
\* and the arena chained a block
C27_Witness ==
    /\ Open
    /\ prev /= NoPrev
    /\ res.out /= NULL
    /\ res.n = prev.w.len
    /\ res.n > 0
    /\ w.len > res.n
    /\ w.cap > prev.w.cap
    /\ Len(w.arena.blocks) > Len(prev.w.arena.blocks)

(* ----- properties: the order of enumeration --------------------------------- *)

RECURSIVE Traversal(_, _, _)
\* the key pointers wc_cursor_next returns on the cursor c, call after call,
\* until it returns 0 or limit calls are made
Traversal(c, cw, limit) ==
    IF limit = 0 THEN <<>>
    ELSE Bind(wc_cursor_next(c, cw), LAMBDA r :
         IF r.ret = 0 THEN <<>>
         ELSE <<r.word>> \o Traversal(r.c, cw, limit - 1))

\* a complete traversal of the counter with the fields cw
FullTraversal(cw) == Traversal(wc_cursor_init(handle), cw, cw.cap + 1)

\* the keys the traversals a and b have in common come in the same relative
\* order in both
SameRelativeOrder(a, b) ==
    \A i, j \in 1..Len(a) :
        \A k, l \in 1..Len(b) :
            (i < j /\ a[i] = b[k] /\ a[j] = b[l]) => k < l

\* an add or scan call was made between two traversals
CalledBetween == Open /\ prev /= NoPrev

\* the traversal made before the last call and the traversal made after it
\* agree on the order of their common keys
OrderKept ==
    Bind(FullTraversal(prev.w), LAMBDA a :
         Bind(FullTraversal(w), LAMBDA b : SameRelativeOrder(a, b)))

\* C28, as stated: cursor enumeration order is stable within a counter's
\* lifetime: any two complete cursor traversals of the same counter yield the
\* keys they have in common in the same relative order, also when add or
\* scan calls (and the growth they trigger) happen between the two
\* traversals.
C28_CursorOrderStable == CalledBetween => OrderKept

\* C28, amended: two complete cursor traversals of the same counter yield the
\* keys they have in common in the same relative order when the add or scan
\* calls made between them leave the capacity as it is; a growth re-probes
\* every entry into the larger slot array, and the order of the entries in it
\* is another.
C28_CursorOrderStableWithinCapacity ==
    (CalledBetween /\ w.cap = prev.w.cap) => OrderKept

\* a call stored new keys among the keys of a table that did not grow
C28_Witness ==
    /\ CalledBetween
    /\ w.cap = prev.w.cap
    /\ prev.w.len > 2
    /\ w.len > prev.w.len + 1
    /\ FullTraversal(w)[1] \notin WordsOf(prev.w)
    /\ Len(FullTraversal(w)) = w.len

(* ----- properties: close ------------------------------------------------- *)

\* the counter was requested without a caller-supplied region
DynamicConf == ~open_alloc(conf.lim).static_mode

\* the heap regions of the open counter: the handle, the current slot array
\* and each arena block (the scan buffer is on the stack in this build)
CounterRegions ==
    {handle, w.tabp} \cup
    {w.arena.blocks[i].addr : i \in 1..Len(w.arena.blocks)}

\* the regions of the open counter are live, with the sizes they were
\* obtained with, and beside them only the snapshot array is
RegionsLive ==
    /\ DOMAIN heap.live = CounterRegions \cup ({res.out} \ {NULL})
    /\ heap.live[handle] = SizeofWc
    /\ heap.live[w.tabp] = w.cap * SizeofSlot
    /\ \A i \in 1..Len(w.arena.blocks) :
           heap.live[w.arena.blocks[i].addr] =
               SizeofBlock + w.arena.blocks[i].cap

\* C29: in dynamic mode, after close following any sequence of operations
\* (including growths and failed inserts), every heap region obtained for
\* the counter (each arena block, the current slot array, the handle) has
\* been released exactly once and no region released earlier (an old slot
\* array) is released again; a construction that returns null has likewise
\* released everything it had obtained.
C29_CloseReleasesOnce ==
    DynamicConf =>
        /\ ~heap.bad
        /\ handle = NULL => heap.live = <<>>
        /\ handle /= NULL => RegionsLive

\* a counter constructed with a table of WC_MIN_INIT_CAP slots was closed
\* after a call in which the table grew and a second call in which an
\* allocation failed
C29_Witness ==
    /\ DynamicConf
    /\ handle = NULL
    /\ heap.live = <<>>
    /\ prev /= NoPrev
    /\ prev.w.cap > WC_MIN_INIT_CAP
    /\ call.rc = WC_NOMEM
    /\ ~conf.lim.nil /\ conf.lim.init_cap = WC_MIN_INIT_CAP

(* ----- properties: growth ------------------------------------------------ *)

\* the (key pointer, key length, count, stored hash) of the occupied slots;
\* no two slots hold the same key pointer, so that the set with the number
\* of occupied slots is the multiset
SlotRecords(tab, cap) == {tab[i] : i \in OccupiedBelow(tab, cap)}

\* an insert of the key of the slot record s into the machine state m finds
\* the key: it returns WC_OK, stores no entry, and counts one more for the
\* record with the pointer s.word
FoundAgain(m, s) ==
    Bind(wc_add(m, [i \in 1..s.n |-> m.mem[s.word][i]] \o <<0>>), LAMBDA r :
         /\ r.rc = WC_OK
         /\ r.m.w.len = m.w.len
         /\ r.m.w.tot = m.w.tot + 1
         /\ SlotRecords(r.m.w.tab, r.m.w.cap) =
                (SlotRecords(m.w.tab, m.w.cap) \ {s})
                    \cup {[s EXCEPT !.cnt = @ + 1]})

\* the load-factor step of tab_insert returned g for the counter as it is:
\* when it succeeds the capacity is doubled, the old slot array is released
\* and the new one is live, and the entries are those there were
GrownWell(g) ==
    g.rc = 0 =>
        /\ g.m.w.cap = 2 * w.cap
        /\ ~g.m.heap.bad
        /\ w.tabp \notin DOMAIN g.m.heap.live
        /\ g.m.w.tabp \in DOMAIN g.m.heap.live
        /\ g.m.heap.live[g.m.w.tabp] = g.m.w.cap * SizeofSlot
        /\ SlotRecords(g.m.w.tab, g.m.w.cap) = SlotRecords(w.tab, w.cap)
        /\ Cardinality(OccupiedBelow(g.m.w.tab, g.m.w.cap)) =
               Cardinality(OccupiedBelow(w.tab, w.cap))
        /\ Cardinality(SlotRecords(w.tab, w.cap)) =
               Cardinality(OccupiedBelow(w.tab, w.cap))
        /\ g.m.w.tot = w.tot
        /\ g.m.w.len = w.len
        /\ g.m.mem = mem
        /\ \A s \in SlotRecords(w.tab, w.cap) : FoundAgain(g.m, s)

\* the counter is on the heap and holds as many entries as make the next
\* insert grow the table
AtThreshold == Open /\ ~w.alloc.static_mode /\ at_threshold(w.len, w.cap)

\* an add was made to a counter on the heap that was at the threshold, and
\* returned WC_OK
GrewInAdd ==
    /\ Open
    /\ prev /= NoPrev
    /\ ~w.alloc.static_mode
    /\ at_threshold(prev.w.len, prev.w.cap)
    /\ call.op = "add"
    /\ call.len > 0
    /\ call.rc = WC_OK

\* C30: in dynamic mode a growth triggered at unique * 10 >= capacity * 7
\* exactly doubles capacity, releases the old slot array, and preserves the
\* entries: the multiset of (key pointer, key length, count, stored hash)
\* over occupied slots is identical before and after, total and unique are
\* unchanged by the growth itself, and every key stored before is found
\* again by a later insert of the same key.
C30_GrowthPreservesEntries ==
    /\ AtThreshold => Bind(tab_insert_load(Machine(0)), GrownWell)
    /\ GrewInAdd =>
          /\ w.cap = 2 * prev.w.cap
          /\ w.tabp \in DOMAIN heap.live
          /\ heap.live[w.tabp] = w.cap * SizeofSlot
          /\ \A s \in SlotRecords(prev.w.tab, prev.w.cap) :
                 \E t \in SlotRecords(w.tab, w.cap) :
                     /\ t.word = s.word /\ t.n = s.n /\ t.hash = s.hash
                     /\ t.cnt >= s.cnt

\* a table of WC_MIN_INIT_CAP slots at its threshold grew in an add of a new
\* key, and the table it grew to is at its threshold no more
C30_Witness ==
    /\ GrewInAdd
    /\ prev.w.cap = WC_MIN_INIT_CAP
    /\ w.cap = 2 * WC_MIN_INIT_CAP
    /\ w.len = prev.w.len + 1
    /\ ~AtThreshold

(* ----- properties: a growth that fails ------------------------------------ *)

\* capacities at which tab_grow finds cap * 2, or nc * sizeof(slot), to
\* overflow size_t
OverflowCaps == {(SIZE_MAX \div 2) + 1, (SIZE_MAX \div (2 * SizeofSlot)) + 1}

\* tab_grow returned g for the machine state m: when it fails the counter,
\* the key bytes and the live regions are those of m
GrowthLeft(m, g) ==
    g.rc < 0 =>
        /\ g.m.w = m.w
        /\ g.m.mem = m.mem
        /\ g.m.heap.live = m.heap.live
        /\ ~g.m.heap.bad

\* tab_grow on the machine state m fails without a change
FailsUnchanged(m) == Bind(tab_grow(m), LAMBDA g : g.rc < 0 /\ GrowthLeft(m, g))

\* an add made to a counter on the heap at its threshold returned
\* WC_NOMEM with the capacity as it was: the growth failed
GrowthFailedInAdd ==
    /\ Open
    /\ prev /= NoPrev
    /\ ~w.alloc.static_mode
    /\ at_threshold(prev.w.len, prev.w.cap)
    /\ call.op = "add"
    /\ call.len > 0
    /\ call.rc = WC_NOMEM
    /\ w.cap = prev.w.cap

\* C31: a growth that fails (size overflow, byte budget exceeded, or heap
\* failure) leaves the slot array, capacity, every slot's content, total,
\* unique and bytes_used exactly as before the attempt.
C31_FailedGrowthChangesNothing ==
    /\ (Open /\ ~w.alloc.static_mode) =>
          /\ \A fail \in 0..1 :
                 Bind(tab_grow(Machine(fail)),
                      LAMBDA g : GrowthLeft(Machine(fail), g))
          /\ \A big \in OverflowCaps :
                 FailsUnchanged([Machine(0) EXCEPT !.w.cap = big])
    /\ GrowthFailedInAdd =>
          /\ w = prev.w
          /\ mem = prev.mem
          /\ heap.live = prev.heap.live
          /\ ~heap.bad

\* the growth of a table holding entries failed in an add: once for the
\* byte budget, with no allocation made to fail
C31_Witness ==
    /\ GrowthFailedInAdd
    /\ call.fail = 0
    /\ w.alloc.bytes_limit /= 0
    /\ w.len > 1
    /\ w.alloc.bytes_used > 0

(* ----- properties: the dry run of a static construction ------------------- *)

\* the dry run wc_open_ex makes for the configuration c: the sizes it
\* requests of the scratch allocator state, and whether both are granted
DryRun(c) ==
    LET tuned == tune_params(c.lim)
        block_sz == open_block_sz(tuned.block_sz, clamp_max_word(c.max_word))
    IN  [table |-> tuned.init_cap * SizeofSlot,
         arena |-> SizeofBlock + block_sz,
         ok |-> preflight_ok(open_alloc(c.lim), EmptyHeap, tuned.init_cap,
                             block_sz, clamp_max_word(c.max_word))]

\* construction returned r where the dry run was d: null when the dry run
\* failed; when it succeeded a counter whose slot array and arena block have
\* the sizes of the dry run, and whose bytes_used and region_used count
\* these two allocations once
BuiltAsDryRun(d, r) ==
    /\ r.handle = NULL <=> ~d.ok
    /\ r.handle = NULL => r.m.heap.live = <<>> /\ ~r.m.heap.bad
    /\ r.handle /= NULL =>
          /\ r.m.w.tabp /= NULL
          /\ r.m.w.cap * SizeofSlot = d.table
          /\ Len(r.m.w.arena.blocks) = 1
          /\ SizeofBlock + r.m.w.arena.blocks[1].cap = d.arena
          /\ r.m.w.alloc.bytes_used = d.table + d.arena
          /\ r.m.w.alloc.sbuf_used = d.table + d.arena

\* byte budgets given with the static region: one byte less than the
\* smallest table and block take, and what they take
DryRunBudgets == {MinStaticBytes - 1, MinStaticBytes}

\* wc_open_ex for the configuration c is built as its dry run
OpensAsDryRun(c) ==
    Bind(wc_open_ex(EmptyHeap, c.max_word, c.lim),
         LAMBDA r : BuiltAsDryRun(DryRun(c), r))

\* C32: in static mode the construction dry run runs on a copy of the
\* allocator state and leaves the counter's own bytes_used and region_used
\* at 0; it performs the same allocation sequence with the same sizes as the
\* real construction, so construction returns null if any simulated
\* allocation fails and, once the dry run has succeeded, none of the real
\* construction allocations fails.
C32_DryRunDecidesConstruction ==
    open_alloc(conf.lim).static_mode =>
        /\ ops = 0 =>
               BuiltAsDryRun(DryRun(conf),
                             [handle |-> handle,
                              m |-> [w |-> w, mem |-> mem, heap |-> heap]])
        /\ \A b \in DryRunBudgets :
               OpensAsDryRun([conf EXCEPT !.lim.max_bytes = b])

\* a counter was constructed over a region that holds the table and the
\* block of the dry run and not twice as much
C32_Witness ==
    /\ open_alloc(conf.lim).static_mode
    /\ ops = 0
    /\ handle /= NULL
    /\ DryRun(conf).ok
    /\ w.alloc.sbuf_used = DryRun(conf).table + DryRun(conf).arena
    /\ w.alloc.sbuf_size < 2 * w.alloc.sbuf_used

(* ----- properties: the bytes accounted -------------------------------------- *)

RECURSIVE SumSizes(_, _)
\* the sum of the sizes of the live regions with addresses in S
SumSizes(live, S) ==
    IF S = {} THEN 0
    ELSE LET q == CHOOSE x \in S : TRUE
         IN  live[q] + SumSizes(live, S \ {q})

\* the sizes requested of the allocator for what the counter holds, in the
\* order of the requests in static mode: the slot array, then each block
HeldSizes ==
    <<w.cap * SizeofSlot>> \o
    [i \in 1..Len(w.arena.blocks) |-> SizeofBlock + w.arena.blocks[i].cap]

RECURSIVE PaddedSum(_, _)
\* the offset the bump allocator of the static region reaches with the
\* requests sizes[1 .. i], each padded to WC_ALIGN
PaddedSum(sizes, i) ==
    IF i = 0 THEN 0
    ELSE LET off == PaddedSum(sizes, i - 1)
         IN  off + ((WC_ALIGN - (off % WC_ALIGN)) % WC_ALIGN) + sizes[i]

\* C33: in every reachable state bytes_used equals the sum of the sizes of
\* the allocator-produced regions currently held by the counter plus their
\* alignment padding: in dynamic mode the sum of the requested sizes of the
\* live slot array and arena blocks (a release never has to saturate at 0),
\* in static mode the sum of padding + size over all allocations made,
\* which equals region_used.
C33_BytesUsedIsRegionSum ==
    Open =>
        IF w.alloc.static_mode
        THEN /\ w.alloc.bytes_used = PaddedSum(HeldSizes, Len(HeldSizes))
             /\ w.alloc.sbuf_used = w.alloc.bytes_used
             /\ DOMAIN heap.live = {handle}
        ELSE /\ w.alloc.bytes_used =
                    SumSizes(heap.live, (DOMAIN heap.live) \ {handle})
             /\ DOMAIN heap.live = CounterRegions
             /\ \A i \in 1..Len(HeldSizes) :
                    /\ HeldSizes[i] <= w.alloc.bytes_used
                    /\ HeldSizes[i] = heap.live[(<<w.tabp>> \o
                           [j \in 1..Len(w.arena.blocks) |->
                               w.arena.blocks[j].addr])[i]]

\* a counter on the heap whose table grew and whose arena has a second
\* block: the old slot array was released, and bytes_used is the sum of the
\* new one and the blocks
C33_Witness ==
    /\ Open
    /\ ~w.alloc.static_mode
    /\ prev /= NoPrev
    /\ w.cap > prev.w.cap
    /\ Len(w.arena.blocks) > 1
    /\ w.alloc.bytes_used = SumSizes(heap.live, (DOMAIN heap.live) \ {handle})
    /\ w.alloc.bytes_used > w.cap * SizeofSlot

(* ----- properties: the stored hash ------------------------------------------ *)

(* 32-bit FNV-1a written out on <<high, low>> halves of 16 bits: the prime  *)
(* 16777619 is 2^24 + 2^8 + 2^7 + 2^4 + 2 + 1, and a product modulo 2^32 is  *)
(* the sum modulo 2^32 of the shifts of h by 24, 8, 7, 4, 1 and 0 bits.      *)

\* (h << k) modulo 2^32, for k < 16
Shl32(h, k) ==
    LET lo == h[2] * (2 ^ k)
    IN  <<((h[1] * (2 ^ k)) + (lo \div 65536)) % 65536, lo % 65536>>

\* (a + b) modulo 2^32
Add32(a, b) ==
    LET lo == a[2] + b[2]
    IN  <<(a[1] + b[1] + (lo \div 65536)) % 65536, lo % 65536>>

\* (h * 16777619) modulo 2^32
TimesPrime(h) ==
    Add32(<<(h[2] % 256) * 256, 0>>,
    Add32(Shl32(h, 8),
    Add32(Shl32(h, 7),
    Add32(Shl32(h, 4),
    Add32(Shl32(h, 1), h)))))

RECURSIVE Fnv1a(_, _, _)
\* FNV-1a of the bytes s[1 .. n] from the basis: for each byte, exclusive
\* or into the low byte, then the product with the prime modulo 2^32
Fnv1a(s, n, basis) ==
    IF n = 0 THEN basis
    ELSE Bind(Fnv1a(s, n - 1, basis), LAMBDA h :
              TimesPrime(<<h[1], XorBits(h[2], s[n], 16)>>))

\* 2166136261 XOR the seed folded to 32 bits: its low half XOR its high half
SeedBasis(lim) ==
    IF lim.nil THEN FNV_OFF_32
    ELSE <<XorBits(FNV_OFF_32[1],
                   XorBits(lim.hash_seed[1], lim.hash_seed[3], 16), 16),
           XorBits(FNV_OFF_32[2],
                   XorBits(lim.hash_seed[2], lim.hash_seed[4], 16), 16)>>

\* in the counter with the fields cw and the arena bytes, made with the
\* limits lim, the stored hash of the slot record s is FNV-1a of its key
\* bytes, which is the hash wc_add computes over them; a NUL follows the key
HashOfKey(cw, bytes, lim, s) ==
    /\ s.hash = Fnv1a(bytes[s.word], s.n, SeedBasis(lim))
    /\ s.hash = fnv32(bytes[s.word], s.n, cw.seed)
    /\ bytes[s.word][s.n + 1] = 0

\* no other slot of the counter holds the key bytes of the slot record s
OneEntry(cw, bytes, s) ==
    \A t \in SlotRecords(cw.tab, cw.cap) :
        (t.n = s.n /\ \A i \in 1..s.n : bytes[t.word][i] = bytes[s.word][i])
            => t = s

\* every stored hash of the counter is the hash of its key
HashesOfKeys(cw, bytes, lim) ==
    /\ cw.seed = SeedBasis(lim)
    /\ \A s \in SlotRecords(cw.tab, cw.cap) :
           HashOfKey(cw, bytes, lim, s) /\ OneEntry(cw, bytes, s)

\* C34: for every occupied slot in every reachable state, the stored hash
\* equals 32-bit FNV-1a (each multiplication reduced modulo 2^32) of the
\* stored key bytes starting from the counter's seed basis 2166136261 XOR
\* folded seed; in particular the hash that scan accumulates letter by
\* letter equals the hash add computes over the same stored bytes, so a
\* token inserted by scan and the same lowercase token inserted by add share
\* one entry.
C34_StoredHashIsFnv1a ==
    /\ Open => HashesOfKeys(w, mem, conf.lim)
    /\ twin /= NoTwin => HashesOfKeys(twin.m.w, twin.m.mem, twin.lim)

\* a counter with a seed whose scan stored "hello" four times was given
\* "hello" by wc_add, and holds one entry counted by both
C34_Witness ==
    /\ Open
    /\ w.seed /= FNV_OFF_32
    /\ prev /= NoPrev
    /\ prev.call.op = "scan"
    /\ prev.call.arg = TextCase
    /\ call.op = "add"
    /\ call.arg = Keyhello
    /\ call.rc = WC_OK
    /\ w.len = 1
    /\ w.tot = prev.w.tot + 1
    /\ Entries = {<<AddedKey(Keyhello, w.maxw), w.tot>>}

(* ----- properties: the first insertion -------------------------------------- *)

\* the first call returned r for the machine state it was made in, armed to
\* fail its first call of malloc: WC_OK with one entry, no call of malloc
\* made, and the allocator state, the capacity and the one arena block as
\* they were
FirstStored(r) ==
    /\ r.rc = WC_OK
    /\ r.m.heap.count = 0
    /\ r.m.heap.live = heap.live
    /\ r.m.w.alloc = w.alloc
    /\ r.m.w.cap = w.cap
    /\ r.m.w.tabp = w.tabp
    /\ Len(r.m.w.arena.blocks) = 1
    /\ r.m.w.arena.blocks[1].addr = w.arena.blocks[1].addr
    /\ r.m.w.len = 1
    /\ r.m.w.tot = 1

\* the counter as constructed has an empty slot, and its one arena block
\* holds a key of max_token_len bytes and its NUL
RoomForOne ==
    /\ w.len = 0
    /\ w.cap >= 1
    /\ ~at_threshold(w.len, w.cap)
    /\ Len(w.arena.blocks) = 1
    /\ w.arena.blocks[1].cur = 0
    /\ w.arena.blocks[1].cap >= w.maxw + 1

\* C35: on any successfully constructed counter, in dynamic or static mode
\* and under any byte budget, the first insertion (add of any non-empty key,
\* or the first token of a scan) returns Ok without any allocator request:
\* the table has an empty slot and the first arena block holds
\* max_token_len + 1 bytes.
C35_FirstInsertionNeedsNoAllocation ==
    /\ (Open /\ ops = 0) =>
          /\ RoomForOne
          /\ \A word \in FirstWords :
                 /\ Bind(wc_add(Machine(1), CString(word)), FirstStored)
                 /\ Bind(wc_scan(Machine(1), word, FALSE, Len(word)),
                         FirstStored)
    /\ (Open /\ ops = 1) =>
          /\ call.rc = WC_OK
          /\ call.fail = 0
          /\ w.len = 1
          /\ w.alloc = prev.w.alloc
          /\ heap.live = prev.heap.live
          /\ Entries = {<<CallKeys(call, w.maxw)[1], 1>>}

\* a counter in a static region under a byte budget, with the smallest
\* block size asked for, stored a key of WC_MAX_WORD bytes as its first
C35_Witness ==
    /\ Open
    /\ ops = 1
    /\ w.alloc.static_mode
    /\ w.alloc.bytes_limit /= 0
    /\ conf.lim.block_size = 1
    /\ w.maxw = WC_MAX_WORD
    /\ w.arena.blocks[1].cur = WC_MAX_WORD + 1
    /\ call.rc = WC_OK
    /\ w.len = 1

(* ----- properties: counting a known token ----------------------------------- *)

\* the call made for the key of the slot record s, in the counter as it is
\* with its first call of malloc made to fail, returned r: WC_OK, with no
\* call of malloc made, the allocator state, the arena and the key bytes as
\* they were, and one more counted for s and in total
CountedAgain(s, r) ==
    /\ r.rc = WC_OK
    /\ r.m.heap.count = 0
    /\ r.m.heap.live = heap.live
    /\ r.m.w.alloc = w.alloc
    /\ r.m.w.arena = w.arena
    /\ r.m.mem = mem
    /\ r.m.w.cap = w.cap
    /\ r.m.w.len = w.len
    /\ r.m.w.tot = w.tot + 1
    /\ SlotRecords(r.m.w.tab, r.m.w.cap) =
           (SlotRecords(w.tab, w.cap) \ {s}) \cup {[s EXCEPT !.cnt = @ + 1]}

\* the key of the slot record s is made of small letters
SmallLetters(s) == \A i \in 1..s.n : mem[s.word][i] \in 97..122

\* wc_add of the key of s, and wc_scan of it when it is a token, count it
KnownCounted(s) ==
    LET key == StoredKey(mem, s) IN
    /\ Bind(wc_add(Machine(1), CString(key)), LAMBDA r : CountedAgain(s, r))
    /\ SmallLetters(s) =>
           Bind(wc_scan(Machine(1), key, FALSE, s.n),
                LAMBDA r : CountedAgain(s, r))

\* the counter is open, below the load threshold
BelowThreshold == Open /\ ~at_threshold(w.len, w.cap)

\* the last call gave only tokens that were stored before it, to a counter
\* below the load threshold
GaveKnownTokens ==
    /\ Open
    /\ prev /= NoPrev
    /\ ~at_threshold(prev.w.len, prev.w.cap)
    /\ CallTokens /= {}
    /\ CallTokens \subseteq {e[1] : e \in EntriesOf(prev.w, prev.mem)}

\* C36: an insertion of a token that is already stored, attempted while
\* unique * 10 < capacity * 7, makes no allocator request and always returns
\* Ok, incrementing that entry's count and total by 1; so counting of known
\* tokens continues after the arena or the byte budget is exhausted.
C36_KnownTokenCounted ==
    /\ BelowThreshold => \A s \in SlotRecords(w.tab, w.cap) : KnownCounted(s)
    /\ GaveKnownTokens =>
          /\ call.rc = WC_OK
          /\ call.fail = 0
          /\ w.len = prev.w.len
          /\ w.tot = prev.w.tot + Len(CallKeys(call, w.maxw))
          /\ w.alloc = prev.w.alloc
          /\ w.arena = prev.w.arena
          /\ heap.live = prev.heap.live

\* a scan ended with WC_NOMEM in a static region whose arena block is full;
\* the counter is below its threshold, and a key it holds is counted again
C36_Witness ==
    /\ BelowThreshold
    /\ call.rc = WC_NOMEM
    /\ w.alloc.static_mode
    /\ w.len > 2
    /\ w.arena.blocks[1].cap - w.arena.blocks[1].cur < MIN_WORD
    /\ \E s \in SlotRecords(w.tab, w.cap) :
           Bind(wc_add(Machine(1), CString(StoredKey(mem, s))),
                LAMBDA r : r.rc = WC_OK /\ r.m.w.tot = w.tot + 1)

(* ----- properties: standard input in chunks --------------------------------- *)

\* wc_scan of the whole stream on the counter as it was constructed
WholeScan == wc_scan(twin.m, twin.stream, FALSE, Len(twin.stream))

\* the counter fed in chunks is as the single scan r left its counter
AsWholeScan(r) ==
    /\ twin.rc = r.rc
    /\ w.tot = r.m.w.tot
    /\ w.len = r.m.w.len
    /\ Entries = EntriesOf(r.m.w, r.m.mem)

\* process_stdin has returned
StreamDone == twin /= NoTwin /\ twin.done

\* C37: the chunked standard-input path is equivalent to one scan of the
\* whole stream: for any byte stream and any split of it into consecutive
\* chunks, feeding the chunks through scan_chunk_stream with its carry
\* buffer and flushing the carry at end of input yields the same total,
\* unique and (key, count) entries as a single scan over the concatenated
\* bytes on a counter of the same configuration, including for a letter run
\* that spans a chunk boundary or exceeds max_token_len.
C37_ChunksAsOneScan == StreamDone => Bind(WholeScan, AsWholeScan)

\* the stream whose first run of letters is longer than the carry buffer was
\* fed to its end to a counter of words of WC_MAX_WORD bytes
C37_Witness ==
    /\ StreamDone
    /\ twin.rc = WC_OK
    /\ twin.stream = StreamLongRun
    /\ w.maxw = WC_MAX_WORD
    /\ w.len = 2
    /\ w.tot = 2
    /\ Len(twin.st) = 3

(* ----- properties: the probe sequences -------------------------------------- *)

\* the home index of the slot i of the counter cw: its stored hash AND
\* (capacity - 1)
HomeIndex(cw, i) == HashAnd(cw.tab[i].hash, cw.cap - 1)

\* the number of steps of forward probing, with wrap-around, from the home
\* index of the slot i to i
ProbeDistance(cw, i) == (i + cw.cap - HomeIndex(cw, i)) % cw.cap

\* every slot the probe passes between the home index of the slot i and i is
\* occupied
ReachedFromHome(cw, i) ==
    \A e \in 0..(ProbeDistance(cw, i) - 1) :
        Occupied(cw.tab, BitAnd(HomeIndex(cw, i) + e, cw.cap - 1))

\* no two occupied slots of the counter hold keys of the same length and
\* bytes
KeysDistinct(cw, bytes) ==
    \A i, j \in OccupiedBelow(cw.tab, cw.cap) :
        StoredKey(bytes, cw.tab[i]) = StoredKey(bytes, cw.tab[j]) => i = j

\* C38: in every reachable state no two occupied slots hold equal keys (same
\* length and bytes), and every occupied slot is reachable from its home
\* index (stored hash AND (capacity - 1)) by forward linear probing with
\* wrap-around without crossing an empty slot; both hold across insertions
\* and across growth.
C38_ProbeSequencesUnbroken ==
    Open =>
        /\ KeysDistinct(w, mem)
        /\ DOMAIN w.tab \subseteq 0..(w.cap - 1)
        /\ \A i \in OccupiedBelow(w.tab, w.cap) : ReachedFromHome(w, i)

\* a table that grew in the last call holds two keys with one hash, one of
\* them away from its home index
C38_Witness ==
    /\ Open
    /\ prev /= NoPrev
    /\ w.cap > prev.w.cap
    /\ prev.w.len > 2
    /\ \E i, j \in OccupiedBelow(w.tab, w.cap) :
           /\ i /= j
           /\ w.tab[i].hash = w.tab[j].hash
           /\ ProbeDistance(w, j) > 0

(* ----- properties: the hash seed -------------------------------------------- *)

\* the bytes before the NUL of the key at the pointer p
KeyBytesAt(bytes, p) ==
    LET n == CHOOSE i \in 1..Len(bytes[p]) :
                 bytes[p][i] = 0 /\ \A j \in 1..(i - 1) : bytes[p][j] /= 0
    IN  [k \in 1..(n - 1) |-> bytes[p][k]]

\* what wc_results gives for the counter with the fields cw and the arena
\* bytes: its status, and the keys and counts of the array in its order
SnapshotOf(cw, bytes) ==
    Bind(wc_results(handle, cw, bytes, EmptyHeap), LAMBDA r :
         [rc |-> r.rc,
          arr |-> [i \in 1..Len(r.arr) |->
                      <<KeyBytesAt(bytes, r.arr[i].word), r.arr[i].count>>]])

\* two counters were made that differ in the hash seed
TwoSeeds == Open /\ twin /= NoTwin /\ w.seed /= twin.m.w.seed

\* C39: the observable results do not depend on the hash seed: two counters
\* built with the same configuration except hash_seed and driven by the same
\* sequence of add/scan calls (with the same allocation outcomes) return the
\* same status codes and end with the same total, unique and snapshot (same
\* keys, counts and order).
C39_SeedIndependent ==
    TwoSeeds =>
        /\ twin.lim = [conf.lim EXCEPT !.hash_seed = twin.lim.hash_seed]
        /\ twin.rc = rc
        /\ wc_total(handle, w) = wc_total(twin.handle, twin.m.w)
        /\ wc_unique(handle, w) = wc_unique(twin.handle, twin.m.w)
        /\ SnapshotOf(w, mem) = SnapshotOf(twin.m.w, twin.m.mem)

\* two counters with different seeds were given the same thirteen words and
\* then two words more; they hold them in slots of another order, and their
\* snapshots are one
C39_Witness ==
    /\ TwoSeeds
    /\ ops = MaxSeedOps
    /\ rc = WC_OK
    /\ w.len > FillWords
    /\ w.cap = twin.m.w.cap
    /\ Traversal(wc_cursor_init(handle), w, w.cap + 1) /=
           Traversal(wc_cursor_init(handle), twin.m.w, w.cap + 1)
    /\ SnapshotOf(w, mem).rc = WC_OK
    /\ Len(SnapshotOf(w, mem).arr) = w.len

(* ----- properties: the probe ends ------------------------------------------ *)

\* hashes whose probes start at each occupied slot of the table, where a
\* probe has slots to pass, and at its first and last slot
StartsOf(tab, cap) ==
    {<<0, i>> : i \in OccupiedBelow(tab, cap) \cup {0, cap - 1}}

\* the counter m as tab_find is entered by tab_insert: it has an empty slot,
\* fewer keys than slots, and the probe of a key from any of the starts
\* returns a slot that is empty or holds the key
ProbeEnds(m) ==
    /\ m.w.len < m.w.cap
    /\ Cardinality(OccupiedBelow(m.w.tab, m.w.cap)) = m.w.len
    /\ \E i \in 0..(m.w.cap - 1) : ~Occupied(m.w.tab, i)
    /\ \A key \in OomKeys \cup {KeyAbcd} :
          ~tab_find(m, key, Len(key), fnv32(key, Len(key), m.w.seed)).null
    /\ \A h \in StartsOf(m.w.tab, m.w.cap) :
          Bind(tab_find(m, KeyQFdzF2, Len(KeyQFdzF2), h), LAMBDA s :
               /\ ~s.null
               /\ \/ ~Occupied(m.w.tab, s.idx)
                  \/ slot_matches(m.mem, m.w.tab[s.idx], KeyQFdzF2,
                                  Len(KeyQFdzF2), h))

\* an insertion made in the counter as it is goes past the load-factor step
\* only to a probe that ends
ProbesEnd(fail) ==
    Bind(tab_insert_load(Machine(fail)), LAMBDA g : g.rc >= 0 => ProbeEnds(g.m))

\* C40: whenever a probe is started by an insertion the slot array contains
\* at least one empty slot (unique < capacity), so the probe loop ends at a
\* match or an empty slot and the full-table outcome (no match and no empty
\* slot) is unreachable, in dynamic and in static mode.
C40_ProbeFindsASlot ==
    Open => /\ w.len < w.cap
            /\ \A fail \in 0..MaxOomFail : ProbesEnd(fail)

\* a static table of WC_MIN_INIT_CAP slots took the keys of one scan up to
\* its threshold, each after a probe, and refused the next with slots still
\* empty
C40_Witness ==
    /\ Open
    /\ w.alloc.static_mode
    /\ call.rc = WC_NOMEM
    /\ w.len = BrimLen
    /\ prev.w.len = 0
    /\ w.cap = WC_MIN_INIT_CAP
    /\ Cardinality(OccupiedBelow(w.tab, w.cap)) = BrimLen
    /\ \E i \in 0..(w.cap - 1) : ~Occupied(w.tab, i)

====
